---- MODULE Spec2Model ----
(***************************************************************************)
(* A model of pruner's recursive injection-aware format driver             *)
(* (src/src/commands/format.rs) and of the formatter dispatcher            *)
(* (src/src/api/format.rs).                                                *)
(*                                                                         *)
(* Buffers are sequences of bytes (integers 0..255).  One call of          *)
(* format_recursive is a frame; frames are addressed by the path of region *)
(* indices that leads to them (<<>> is the top-level call made by handle). *)
(* The sibling regions of a frame are formatted by parallel tasks whose    *)
(* steps interleave freely.                                                *)
(*                                                                         *)
(* Intermediate values are passed as operator parameters, one helper per   *)
(* step of the code, so that each is computed once.                        *)
(***************************************************************************)
EXTENDS Integers, Sequences, FiniteSets, TLC

(***************************************************************************)
(* Bytes                                                                   *)
(***************************************************************************)
NL == 10
CR == 13
SP == 32
DQ == 34
LT == 60
BS == 92
XFF == 255
SEMI == 59

(***************************************************************************)
(* Bounds of the model                                                     *)
(***************************************************************************)
MaxLen == 3
MaxWidth == 2
MaxDepth == 2
MaxRuns == 2
MaxTextLen == 4
MaxIndent == 2
MaxBuf == 3
MaxEdits == 2
MaxOverlays == 2
MaxLines == 3
MaxCol == 2

(***************************************************************************)
(* Generic helpers                                                         *)
(***************************************************************************)
BSeq(S, n) == UNION {[1..k -> S] : k \in 0..n}

Min(a, b) == IF a < b THEN a ELSE b

Max(a, b) == IF a > b THEN a ELSE b

MinOf(S) == CHOOSE m \in S : \A x \in S : m <= x

Spaces(n) == [k \in 1..n |-> SP]

StartsWith(text, pat, i) ==
  /\ i + Len(pat) - 1 <= Len(text)
  /\ \A k \in 1..Len(pat) : text[i + k - 1] = pat[k]

EndsWith(text, pat) ==
  /\ Len(pat) <= Len(text)
  /\ \A k \in 1..Len(pat) : text[Len(text) - Len(pat) + k] = pat[k]

RECURSIVE Concat(_)
Concat(seqs) == IF seqs = <<>> THEN <<>> ELSE Head(seqs) \o Concat(Tail(seqs))

\* String::from_utf8 succeeds: over ASCII plus 0xFF, exactly when 0xFF is absent
IsUtf8(bytes) == \A k \in 1..Len(bytes) : bytes[k] < 128

\* char::is_whitespace over the bytes of the model
IsWhitespace(b) == b \in {SP, NL, CR, 9, 11, 12}

\* chars().take_while(|ch| *ch == ' ').count()
RECURSIVE leading_spaces(_)
leading_spaces(line) ==
  IF line = <<>> \/ Head(line) # SP THEN 0 ELSE 1 + leading_spaces(Tail(line))

\* str::split('\n'): the pieces between newlines (the last one may be empty)
FirstNL(text) ==
  CHOOSE k \in 1..Len(text) : text[k] = NL /\ \A j \in 1..(k - 1) : text[j] # NL

RECURSIVE SplitNL(_)
SplitAt(text, i) ==
  <<SubSeq(text, 1, i - 1)>> \o SplitNL(SubSeq(text, i + 1, Len(text)))

SplitNL(text) ==
  IF \A k \in 1..Len(text) : text[k] # NL THEN <<text>>
  ELSE SplitAt(text, FirstNL(text))

\* the number of pieces that are lines: a final empty piece is none
LineCount(parts) ==
  IF parts[Len(parts)] = <<>> THEN Len(parts) - 1 ELSE Len(parts)

StripCR(line, terminated) ==
  IF terminated /\ line # <<>> /\ line[Len(line)] = CR
  THEN SubSeq(line, 1, Len(line) - 1)
  ELSE line

LinesOf(parts) ==
  [k \in 1..LineCount(parts) |-> StripCR(parts[k], k < Len(parts))]

\* str::lines(): split at '\n', no final empty line, a '\r' before '\n' dropped
lines(text) == LinesOf(SplitNL(text))

SegmentsOf(parts) ==
  [k \in 1..LineCount(parts) |->
     IF k < Len(parts) THEN Append(parts[k], NL) ELSE parts[k]]

\* str::split_inclusive('\n'): segments that keep their terminating '\n'
split_inclusive(text) == SegmentsOf(SplitNL(text))

(***************************************************************************)
(* Text utilities of src/src/commands/format.rs                            *)
(***************************************************************************)
\* the while loop of offset_lines over the vector being edited; i is 1-based
RECURSIVE offset_loop(_, _, _)
offset_loop(data, i, offset) ==
  IF i > Len(data) THEN data
  ELSE IF data[i] = NL
       THEN IF i + 1 > Len(data) \/ data[i + 1] \in {NL, CR}
            THEN offset_loop(data, i + 1, offset)
            ELSE offset_loop(SubSeq(data, 1, i) \o Spaces(offset)
                               \o SubSeq(data, i + 1, Len(data)),
                             i + offset + 1, offset)
       ELSE offset_loop(data, i + 1, offset)

offset_lines(data, offset) ==
  IF offset = 0 THEN data ELSE offset_loop(data, 1, offset)

\* while data.last() is '\n' or '\r': data.pop()
RECURSIVE pop_newlines(_)
pop_newlines(data) ==
  IF data # <<>> /\ data[Len(data)] \in {NL, CR}
  THEN pop_newlines(SubSeq(data, 1, Len(data) - 1))
  ELSE data

\* if preserve_newline && removed_newline: data.push('\n')
push_preserved(data, popped, preserve_newline) ==
  IF preserve_newline /\ Len(popped) < Len(data) THEN Append(popped, NL) ELSE popped

trim_trailing_always(data, preserve_newline) ==
  push_preserved(data, pop_newlines(data), TRUE)

trim_trailing_whitespace(data, preserve_newline) ==
  push_preserved(data, pop_newlines(data), preserve_newline)

\* rposition of '\n' in source[..target], plus one; 0 when there is none
LineStart(source, target) ==
  IF \A k \in 1..target : source[k] # NL THEN 0
  ELSE CHOOSE k \in 1..target :
         source[k] = NL /\ \A j \in (k + 1)..target : source[j] # NL

ColumnAt(source, target) == target - LineStart(source, target)

column_for_byte(source, byte_index) ==
  ColumnAt(source, Min(byte_index, Len(source)))

NonBlank(line) == \E j \in 1..Len(line) : ~IsWhitespace(line[j])

IndentsOf(ls) ==
  {leading_spaces(ls[k]) : k \in {j \in 1..Len(ls) : NonBlank(ls[j])}}

MinOrZero(S) == IF S = {} THEN 0 ELSE MinOf(S)

min_leading_indent(text) == MinOrZero(IndentsOf(lines(text)))

StripLine(line, newline, indent) ==
  SubSeq(line, Min(indent, leading_spaces(line)) + 1, Len(line)) \o newline

StripSegment(segment, indent) ==
  IF EndsWith(segment, <<NL>>)
  THEN StripLine(SubSeq(segment, 1, Len(segment) - 1), <<NL>>, indent)
  ELSE StripLine(segment, <<>>, indent)

StripAll(segs, indent) ==
  Concat([k \in 1..Len(segs) |-> StripSegment(segs[k], indent)])

\* every leading space of every line removed, whatever the indent
strip_every_leading_space(text, indent) ==
  IF indent = 0 THEN text ELSE StripAll(split_inclusive(text), Len(text))

strip_leading_indent(text, indent) ==
  IF indent = 0 THEN text ELSE StripAll(split_inclusive(text), indent)

\* the comparator of sort_by: longer first, then lexicographic by bytes
RECURSIVE LexLess(_, _)
LexLess(a, b) ==
  IF b = <<>> THEN FALSE
  ELSE IF a = <<>> THEN TRUE
  ELSE IF Head(a) # Head(b) THEN Head(a) < Head(b)
  ELSE LexLess(Tail(a), Tail(b))

EscapeBefore(a, b) == Len(a) > Len(b) \/ (Len(a) = Len(b) /\ LexLess(a, b))

RECURSIVE InsertSorted(_, _)
InsertSorted(sorted, x) ==
  IF sorted = <<>> THEN <<x>>
  ELSE IF EscapeBefore(x, Head(sorted)) THEN <<x>> \o sorted
  ELSE <<Head(sorted)>> \o InsertSorted(Tail(sorted), x)

\* chars.sort_by(...) applied to the set's elements in iteration order iter
RECURSIVE sort_by_len_lex(_)
sort_by_len_lex(iter) ==
  IF iter = <<>> THEN <<>>
  ELSE InsertSorted(sort_by_len_lex(SubSeq(iter, 1, Len(iter) - 1)), iter[Len(iter)])

\* the orders in which a HashSet may be iterated
Perms(S) ==
  {p \in [1..Cardinality(S) -> S] : \A x \in S : \E k \in DOMAIN p : p[k] = x}

\* sort_escape_chars: the HashSet is iterated in some order, then sorted
sort_escape_chars(escape_chars) ==
  sort_by_len_lex(CHOOSE iter \in Perms(escape_chars) : TRUE)

\* str::replace: the non-overlapping matches of pat, found left to right
RECURSIVE Replace(_, _, _)
Replace(text, pat, to) ==
  IF Len(text) < Len(pat) \/ pat = <<>> THEN text
  ELSE IF StartsWith(text, pat, 1)
       THEN to \o Replace(SubSeq(text, Len(pat) + 1, Len(text)), pat, to)
       ELSE <<Head(text)>> \o Replace(Tail(text), pat, to)

RECURSIVE unescape_text(_, _)
unescape_text(text, escape_chars) ==
  IF escape_chars = <<>> THEN text
  ELSE unescape_text(Replace(text, <<BS>> \o Head(escape_chars), Head(escape_chars)),
                     Tail(escape_chars))

RECURSIVE escape_text(_, _)
escape_text(text, escape_chars) ==
  IF escape_chars = <<>> THEN text
  ELSE escape_text(Replace(text, Head(escape_chars), <<BS>> \o Head(escape_chars)),
                   Tail(escape_chars))

(***************************************************************************)
(* State                                                                   *)
(*   input       what handle passes to the top-level format_recursive      *)
(*   grammars    FormatContext.grammars: language -> injections query      *)
(*   languages   FormatContext.languages: language -> formatter chain      *)
(*   formatters  FormatContext.formatters: name -> FormatterSpec           *)
(*   frames      the calls of format_recursive of the current run, by path *)
(*   run         the number of the current run of the driver               *)
(*   first_ret   what the first run returned                               *)
(*   esc         one escape round trip of a region text (unescape_text,    *)
(*               then escape_text, with the list sort_escape_chars gives)  *)
(*   util        one evaluation of the text and edit utilities             *)
(*   proc        one call of api::format::format: the formatter process    *)
(*               and the temporary files                                   *)
(*   merged      a configuration and the overlays merged into it           *)
(*   doc         one call of the align_comments formatter                  *)
(***************************************************************************)
VARIABLES input, grammars, languages, formatters, frames, run, first_ret, esc,
          util, proc, merged, doc

vars == <<input, grammars, languages, formatters, frames, run, first_ret, esc,
          util, proc, merged, doc>>

\* the part of the state an operation of another component leaves alone
Idle == [pc |-> "idle"]

driver == <<input, grammars, languages, formatters, frames, run, first_ret>>

Ok(bytes) == [ok |-> TRUE, out |-> bytes]

Err == [ok |-> FALSE, out |-> <<>>]

\* no result yet
NoRet == [ok |-> FALSE, out |-> <<-1>>]

\* no formatter selected
NoFormatter == [cmd |-> "", stdin |-> TRUE, fail_on_stderr |-> FALSE]

(***************************************************************************)
(* The formatter programs the registries may name and what each does with  *)
(* the bytes it is given: exit status, standard output, standard error.    *)
(***************************************************************************)
Programs == {"cat", "newline", "strip", "parse", "binary"}

Contains(bytes, b) == \E k \in 1..Len(bytes) : bytes[k] = b

Failure == [success |-> FALSE, stdout |-> <<>>, stderr |-> <<DQ>>]

RunProgram(cmd, bytes) ==
  CASE cmd = "cat" -> [success |-> TRUE, stdout |-> bytes, stderr |-> <<>>]
    [] cmd = "newline" -> [success |-> TRUE, stdout |-> Append(bytes, NL), stderr |-> <<>>]
    [] cmd = "strip" -> [success |-> TRUE, stdout |-> pop_newlines(bytes), stderr |-> <<>>]
    [] cmd = "binary" -> [success |-> TRUE, stdout |-> <<XFF>>, stderr |-> <<>>]
    [] cmd = "shift" -> [success |-> TRUE, stdout |-> <<SP>> \o bytes, stderr |-> <<>>]
    [] cmd = "parse" -> IF Contains(bytes, DQ) THEN Failure
                        ELSE [success |-> TRUE, stdout |-> bytes, stderr |-> <<>>]
    [] OTHER -> Failure

\* api::format::format, lines 69-103: what is made of the process's output
FormatResult(formatter, output) ==
  IF ~output.success THEN Err
  ELSE IF formatter.fail_on_stderr /\ output.stderr # <<>> THEN Err
  ELSE Ok(output.stdout)

\* api::format::format
format(formatter, source, opts) ==
  FormatResult(formatter, RunProgram(formatter.cmd, source))

(***************************************************************************)
(* The injection extractor: the regions the grammar's injections query     *)
(* yields for a buffer.  A query is a list of byte ranges with a language  *)
(* and escape characters; ranges that are empty or reach outside the       *)
(* buffer yield no region.                                                 *)
(***************************************************************************)
extract_language_injections(grammar, buffer) ==
  SelectSeq(grammar, LAMBDA r : r.start_byte < r.end_byte /\ r.end_byte <= Len(buffer))

\* Vec::sort_by(|a, b| b.start_byte.cmp(&a.start_byte)): stable, descending
RECURSIVE InsertDesc(_, _)
InsertDesc(sorted, x) ==
  IF sorted = <<>> THEN <<x>>
  ELSE IF x.start_byte > Head(sorted).start_byte THEN <<x>> \o sorted
  ELSE <<Head(sorted)>> \o InsertDesc(Tail(sorted), x)

RECURSIVE sort_desc(_)
sort_desc(items) ==
  IF items = <<>> THEN <<>>
  ELSE InsertDesc(sort_desc(SubSeq(items, 1, Len(items) - 1)), items[Len(items)])

(***************************************************************************)
(* format_recursive, lines 223-237: collect, sort, splice                  *)
(***************************************************************************)
\* Vec::splice(start..end, replacement)
splice(buffer, start_byte, end_byte, replacement) ==
  SubSeq(buffer, 1, start_byte) \o replacement
    \o SubSeq(buffer, end_byte + 1, Len(buffer))

\* the loop of lines 230-235; a range outside the buffer is a panic
RECURSIVE splice_all(_, _)
splice_all(buffer, results) ==
  IF results = <<>> THEN Ok(buffer)
  ELSE IF Head(results).end_byte > Len(buffer) THEN Err
  ELSE splice_all(splice(buffer, Head(results).start_byte, Head(results).end_byte,
                         Head(results).bytes),
                  Tail(results))

\* (region, formatted_sub_result) of task i
Pair(frame, i) ==
  [start_byte |-> frame.regions[i].start_byte,
   end_byte |-> frame.regions[i].end_byte,
   bytes |-> frame.tasks[i].result.out]

\* the results in the order in which the tasks completed, unsorted
region_results_unordered(frame) ==
  [k \in 1..Len(frame.order) |-> Pair(frame, frame.order[k])]

\* collect() keeps the order of injected_regions; then sort_by descending
region_results(frame) ==
  sort_desc([i \in 1..Len(frame.regions) |-> Pair(frame, i)])

OkTasks(frame) ==
  SelectSeq([i \in 1..Len(frame.regions) |-> i], LAMBDA i : frame.tasks[i].result.ok)

OkPairs(frame, oks) == sort_desc([k \in 1..Len(oks) |-> Pair(frame, oks[k])])

\* the results of the tasks that failed dropped, the others spliced
join_ignoring_errors(frame) == splice_all(frame.buf, OkPairs(frame, OkTasks(frame)))

\* lines 223-237: the first error, or the buffer with every result spliced
join(frame) ==
  IF \E i \in 1..Len(frame.tasks) : ~frame.tasks[i].result.ok THEN Err
  ELSE splice_all(frame.buf, region_results(frame))

AllDone(frame) == \A i \in 1..Len(frame.tasks) : frame.tasks[i].state = "done"

Returned(frame) == [frame EXCEPT !.phase = "returned", !.ret = join(frame)]

(***************************************************************************)
(* format_recursive, lines 154-173: grammar lookup, root format, extraction*)
(***************************************************************************)
FirstRegistered(chain) ==
  formatters[chain[MinOf({k \in 1..Len(chain) : chain[k] \in DOMAIN formatters})]]

\* the first registered name of the chain instead of its first name
first_registered_formatter(language) ==
  IF language \notin DOMAIN languages THEN NoFormatter
  ELSE IF \A k \in 1..Len(languages[language]) :
            languages[language][k] \notin DOMAIN formatters
       THEN NoFormatter
  ELSE FirstRegistered(languages[language])

\* lines 161-163: the first name of the language's chain, if registered
first_formatter(language) ==
  IF language \notin DOMAIN languages THEN NoFormatter
  ELSE IF languages[language] = <<>> THEN NoFormatter
  ELSE IF languages[language][1] \notin DOMAIN formatters THEN NoFormatter
  ELSE formatters[languages[language][1]]

root_formatter_always(language, skip_root) == first_formatter(language)

\* lines 160-167: the formatter the root is given to, if any
root_formatter(language, skip_root) ==
  IF skip_root THEN NoFormatter ELSE first_formatter(language)

\* a call that returns its source at once (line 155)
NewFrame(source, opts, skip_root) ==
  [source |-> source, opts |-> opts, skip_root |-> skip_root,
   phase |-> "returned", invoked |-> FALSE, extracted |-> FALSE,
   buf |-> source, regions |-> <<>>, tasks |-> <<>>, order |-> <<>>,
   ret |-> Ok(source)]

PendingTask ==
  [state |-> "pending", indent |-> 0, escape_chars |-> <<>>, result |-> NoRet]

\* lines 175-176: the parallel map starts; without regions the call returns
MapRegions(frame) ==
  IF frame.regions = <<>> THEN Returned(frame) ELSE frame

\* lines 170-173
EnterExtract(base, formatter, formatted, regions) ==
  MapRegions([base EXCEPT !.invoked = formatter # NoFormatter,
                          !.extracted = TRUE,
                          !.buf = formatted.out,
                          !.regions = regions,
                          !.tasks = [i \in 1..Len(regions) |-> PendingTask],
                          !.phase = "mapping",
                          !.ret = NoRet])

\* line 164: the ? on the formatter's result
EnterFormatted(base, formatter, formatted) ==
  IF ~formatted.ok THEN [base EXCEPT !.invoked = TRUE, !.ret = Err]
  ELSE EnterExtract(base, formatter, formatted,
                    sort_desc(extract_language_injections(
                                grammars[base.opts.language], formatted.out)))

\* lines 158-168
EnterRoot(base, formatter) ==
  EnterFormatted(base, formatter,
                 IF formatter = NoFormatter THEN Ok(base.source)
                 ELSE format(formatter, base.source, base.opts))

FormatOnly(base, formatter) ==
  IF formatter = NoFormatter THEN base
  ELSE [base EXCEPT !.invoked = TRUE,
                    !.ret = format(formatter, base.source, base.opts)]

\* the root given to the language's formatter although its grammar is unknown
enter_formatting_unknown(source, opts, skip_root) ==
  IF opts.language \notin DOMAIN grammars
  THEN FormatOnly(NewFrame(source, opts, skip_root),
                  root_formatter(opts.language, skip_root))
  ELSE EnterRoot(NewFrame(source, opts, skip_root),
                 root_formatter(opts.language, skip_root))

\* a call of format_recursive up to its parallel map (or to its return,
\* when it has no region to map over)
Enter(source, opts, skip_root) ==
  IF opts.language \notin DOMAIN grammars THEN NewFrame(source, opts, skip_root)
  ELSE EnterRoot(NewFrame(source, opts, skip_root),
                 root_formatter(opts.language, skip_root))

(***************************************************************************)
(* format_recursive, lines 177-219: the pipeline of one region             *)
(***************************************************************************)
\* u32::saturating_sub
SatSub(a, b) == IF a > b THEN a - b ELSE 0

\* line 178
source_slice(frame, region) ==
  SubSeq(frame.buf, region.start_byte + 1, region.end_byte)

\* the child's options with the print width of the parent, not adjusted
pre_result_unadjusted(frame, region, slice, escape_chars, unescaped, indent) ==
  [ok |-> IsUtf8(slice),
   escape_chars |-> escape_chars,
   indent |-> indent,
   source |-> IF indent > 0 THEN strip_leading_indent(unescaped, indent)
              ELSE unescaped,
   opts |-> [printwidth |-> frame.opts.printwidth,
             language |-> region.lang]]

\* lines 199-208: the source and the options of the child call
PreResult(frame, region, slice, escape_chars, unescaped, indent) ==
  [ok |-> IsUtf8(slice),
   escape_chars |-> escape_chars,
   indent |-> indent,
   source |-> IF indent > 0 THEN strip_leading_indent(unescaped, indent)
              ELSE unescaped,
   opts |-> [printwidth |-> Max(SatSub(frame.opts.printwidth, indent), 1),
             language |-> region.lang]]

\* lines 187-197: the column of the region's start, else the minimal indent
PreIndent(frame, region, slice, escape_chars, unescaped, column) ==
  PreResult(frame, region, slice, escape_chars, unescaped,
            IF column > 0 THEN column ELSE min_leading_indent(unescaped))

\* lines 180-187
PreUnescape(frame, region, slice, escape_chars) ==
  PreIndent(frame, region, slice, escape_chars,
            IF escape_chars = <<>> THEN slice ELSE unescape_text(slice, escape_chars),
            column_for_byte(frame.source, region.start_byte))

\* lines 178-208: up to the child call
region_pre(frame, region) ==
  PreUnescape(frame, region, source_slice(frame, region),
              sort_escape_chars(region.escape_chars))

\* lines 216-218
PostTrim(frame, region, task, escaped) ==
  Ok(offset_lines(
       trim_trailing_whitespace(escaped,
                                EndsWith(source_slice(frame, region), <<NL>>)),
       task.indent))

\* lines 211-219: from the child's return to the task's result
region_post(frame, region, task, child_ret) ==
  IF ~child_ret.ok THEN Err
  ELSE IF task.escape_chars = <<>> THEN PostTrim(frame, region, task, child_ret.out)
  ELSE IF ~IsUtf8(child_ret.out) THEN Err
  ELSE PostTrim(frame, region, task, escape_text(child_ret.out, task.escape_chars))

\* lines 202-211: the child call, always with skip_root = false
child_call(frame, pre) == Enter(pre.source, pre.opts, FALSE)

(***************************************************************************)
(* The inputs and registries of a run                                      *)
(***************************************************************************)
SrcBytes == {NL, SP, DQ, BS}

Sources == BSeq(SrcBytes, MaxLen)

\* zero, which the option parser accepts, and a width an indent fits in
PrintWidths == {0, MaxWidth}

Injection(start_byte, end_byte, lang, escape_chars) ==
  [start_byte |-> start_byte, end_byte |-> end_byte, lang |-> lang,
   escape_chars |-> escape_chars]

\* the byte ranges of the host grammar's query: one region that runs to
\* the end of a full-length buffer, or two regions with a byte between them
Layouts ==
  { <<<<1, MaxLen>>>>,
    <<<<0, 1>>, <<2, MaxLen>>>> }

HostQuery(layout, escape_chars) ==
  [k \in 1..Len(layout) |->
     Injection(layout[k][1], layout[k][2], "guest", escape_chars)]

\* the guest grammar's query: no injection, guest inside guest, or two
\* regions of a third language
GuestQueries ==
  { <<>>,
    <<Injection(1, 2, "guest", {})>>,
    <<Injection(0, 1, "leaf", {}), Injection(1, 2, "leaf", {})>> }

\* the third language: without a grammar, or with one and a formatter
LeafGrammars == { <<>>, [leaf |-> <<>>] }

EscapeSets == { {}, {<<DQ>>} }

Formatter(cmd) == [cmd |-> cmd, stdin |-> TRUE, fail_on_stderr |-> FALSE]

\* the chains a language may have; "fz" is never registered
Chains == { <<>>, <<"fz">>, <<"fz", "fa">>, <<"fa">>, <<"fa", "fz">> }

Maps(keys, values) == UNION {[d -> values] : d \in SUBSET keys}

\* root formatting alone: the host grammar is unknown or has no injection
DispatchConfigs ==
  [grammars : {<<>>, [host |-> <<>>]},
   languages : Maps({"host"}, Chains),
   formatters : {[fa |-> Formatter("newline")]}]

\* injected regions of a guest language whose grammar is unknown
UnknownGuestConfigs ==
  {[grammars |-> [host |-> HostQuery(layout, e)],
    languages |-> [guest |-> <<"fa">>],
    formatters |-> [fa |-> Formatter("cat")]] :
      layout \in Layouts, e \in EscapeSets}

\* injected regions of a guest language that has a formatter
FormattedGuestConfigs ==
  {[grammars |-> [host |-> HostQuery(layout, e), guest |-> <<>>],
    languages |-> [guest |-> <<"fa">>],
    formatters |-> [fa |-> Formatter(cmd)]] :
      layout \in Layouts, e \in EscapeSets, cmd \in {"cat", "binary"}}
  \cup
  {[grammars |-> [host |-> HostQuery(layout, {}), guest |-> <<>>],
    languages |-> [guest |-> <<"fa">>],
    formatters |-> [fa |-> Formatter(cmd)]] :
      layout \in Layouts, cmd \in Programs}

\* host and guest both formatted, the guest with injections of its own
NestedConfigs ==
  {[grammars |-> [host |-> HostQuery(layout, {}), guest |-> q] @@ g,
    languages |-> [host |-> <<"fa">>, guest |-> <<"fa">>, leaf |-> <<"fb">>],
    formatters |-> [fa |-> Formatter(cmd), fb |-> Formatter("parse")]] :
      layout \in Layouts, q \in GuestQueries, g \in LeafGrammars,
      cmd \in {"newline", "parse"}}

Configs ==
  DispatchConfigs \cup UnknownGuestConfigs \cup FormattedGuestConfigs \cup NestedConfigs

EscIdle == [pc |-> "idle", set |-> {}, text |-> <<>>, list |-> <<>>,
            unescaped |-> <<>>, escaped |-> <<>>]

Init ==
  /\ input \in [source : Sources, printwidth : PrintWidths,
                language : {"host"}, skip_root : BOOLEAN]
  /\ \E c \in Configs :
       /\ grammars = c.grammars
       /\ languages = c.languages
       /\ formatters = c.formatters
  /\ frames = <<>>
  /\ run = 1
  /\ first_ret = NoRet
  /\ esc = EscIdle
  /\ util = Idle
  /\ proc = Idle
  /\ merged = Idle
  /\ doc = Idle

(***************************************************************************)
(* Actions                                                                 *)
(***************************************************************************)
Top == <<>>

\* handle, lines 311-326: the top-level call of format_recursive
Start ==
  /\ DOMAIN frames = {}
  /\ frames' = (Top :> Enter(input.source,
                             [printwidth |-> input.printwidth,
                              language |-> input.language],
                             input.skip_root))
  /\ UNCHANGED <<input, grammars, languages, formatters, run, first_ret, esc,
                  util, proc, merged, doc>>

\* a region's task runs lines 178-211, up to the child's own parallel map
RegionStart(p, i) ==
  /\ frames[p].phase = "mapping"
  /\ frames[p].tasks[i].state = "pending"
  /\ Len(p) < MaxDepth
  /\ \E pre \in {region_pre(frames[p], frames[p].regions[i])} :
       IF pre.ok
       THEN frames' =
              [frames EXCEPT ![p].tasks[i] =
                 [state |-> "running", indent |-> pre.indent,
                  escape_chars |-> pre.escape_chars, result |-> NoRet]]
              @@ (Append(p, i) :> child_call(frames[p], pre))
       ELSE frames' =
              [frames EXCEPT ![p].tasks[i] =
                 [state |-> "done", indent |-> pre.indent,
                  escape_chars |-> pre.escape_chars, result |-> Err],
                             ![p].order = Append(@, i)]
  /\ UNCHANGED <<input, grammars, languages, formatters, run, first_ret, esc,
                  util, proc, merged, doc>>

\* the child as it returns: lines 223-237 of the child call
ChildReturned(child) ==
  IF child.phase = "returned" THEN child ELSE Returned(child)

\* the child call returns and the task runs lines 211-219
RegionFinish(p, i) ==
  /\ frames[p].phase = "mapping"
  /\ frames[p].tasks[i].state = "running"
  /\ frames[Append(p, i)].phase = "returned" \/ AllDone(frames[Append(p, i)])
  /\ \E child \in {ChildReturned(frames[Append(p, i)])} :
       frames' = [frames EXCEPT
                    ![Append(p, i)] = child,
                    ![p].tasks[i].state = "done",
                    ![p].tasks[i].result =
                       region_post(frames[p], frames[p].regions[i],
                                   frames[p].tasks[i], child.ret),
                    ![p].order = Append(@, i)]
  /\ UNCHANGED <<input, grammars, languages, formatters, run, first_ret, esc,
                  util, proc, merged, doc>>

\* the top-level call collects, sorts and splices (lines 223-237) and returns
Return ==
  /\ Top \in DOMAIN frames
  /\ frames[Top].phase = "mapping"
  /\ AllDone(frames[Top])
  /\ frames' = [frames EXCEPT ![Top] = Returned(frames[Top])]
  /\ UNCHANGED <<input, grammars, languages, formatters, run, first_ret, esc,
                  util, proc, merged, doc>>

Next ==
  \/ Start
  \/ \E p \in DOMAIN frames : \E i \in 1..Len(frames[p].tasks) : RegionStart(p, i)
  \/ \E p \in DOMAIN frames : \E i \in 1..Len(frames[p].tasks) : RegionFinish(p, i)
  \/ Return

Spec == Init /\ [][Next]_vars

(***************************************************************************)
(* Several runs of the driver on the same input with the same registries   *)
(***************************************************************************)
\* handle is run again: the result of the first run is kept for comparison
Rerun ==
  /\ Top \in DOMAIN frames
  /\ frames[Top].phase = "returned"
  /\ run < MaxRuns
  /\ run' = run + 1
  /\ first_ret' = IF run = 1 THEN frames[Top].ret ELSE first_ret
  /\ frames' = <<>>
  /\ UNCHANGED <<input, grammars, languages, formatters, esc,
                  util, proc, merged, doc>>

NextRuns == Next \/ Rerun

SpecRuns == Init /\ [][NextRuns]_vars

(***************************************************************************)
(* A run whose root formatter changes the text in front of the regions:    *)
(* the program "shift" puts a space in front of its input.                 *)
(***************************************************************************)
ShiftConfigs ==
  {[grammars |-> [host |-> HostQuery(layout, {}), guest |-> <<>>],
    languages |-> [host |-> <<"fa">>, guest |-> <<"fb">>],
    formatters |-> [fa |-> Formatter(cmd), fb |-> Formatter("cat")]] :
      layout \in Layouts, cmd \in {"cat", "shift"}}

InitShift ==
  /\ input \in [source : Sources, printwidth : {MaxWidth},
                language : {"host"}, skip_root : BOOLEAN]
  /\ \E c \in ShiftConfigs :
       /\ grammars = c.grammars
       /\ languages = c.languages
       /\ formatters = c.formatters
  /\ frames = <<>>
  /\ run = 1
  /\ first_ret = NoRet
  /\ esc = EscIdle
  /\ util = Idle
  /\ proc = Idle
  /\ merged = Idle
  /\ doc = Idle

SpecShift == InitShift /\ [][Next]_vars

(***************************************************************************)
(* Runs on bytes that are not text: the source, read as bytes (line 307),  *)
(* may hold a byte that is not valid UTF-8, and so may the output of the   *)
(* guest's formatter (the program "binary").                               *)
(***************************************************************************)
ByteSources == BSeq({NL, XFF}, MaxLen)

ByteConfigs ==
  {[grammars |-> [host |-> HostQuery(layout, escape_chars), guest |-> <<>>],
    languages |-> [host |-> <<"fa">>, guest |-> <<"fb">>],
    formatters |-> [fa |-> Formatter("cat"), fb |-> Formatter(cmd)]] :
      layout \in Layouts, escape_chars \in EscapeSets, cmd \in {"cat", "binary"}}

InitBytes ==
  /\ input \in [source : ByteSources, printwidth : {MaxWidth},
                language : {"host"}, skip_root : BOOLEAN]
  /\ \E c \in ByteConfigs :
       /\ grammars = c.grammars
       /\ languages = c.languages
       /\ formatters = c.formatters
  /\ frames = <<>>
  /\ run = 1
  /\ first_ret = NoRet
  /\ esc = EscIdle
  /\ util = Idle
  /\ proc = Idle
  /\ merged = Idle
  /\ doc = Idle

SpecBytes == InitBytes /\ [][Next]_vars

(***************************************************************************)
(* One chain of nested calls of format_recursive, followed downwards.      *)
(* frames holds the innermost call of the chain only: its callers wait at  *)
(* line 202 for it to return, and what is left for them to do (lines       *)
(* 211-237) is loops over finite lists.  The chain ends at a call that     *)
(* returns without a call of its own.  The registries may be cyclic: two   *)
(* languages injected into each other.                                     *)
(***************************************************************************)
ChainRanges == { <<0, MaxLen>>, <<1, MaxLen>>, <<1, 2>> }

MutualConfigs ==
  {[grammars |-> [host |-> <<Injection(r[1], r[2], "guest", {})>>,
                  guest |-> <<Injection(q[1], q[2], "host", {})>>],
    languages |-> [host |-> <<"fa">>, guest |-> <<"fb">>],
    formatters |-> [fa |-> Formatter(cmd), fb |-> Formatter("cat")]] :
      r \in ChainRanges, q \in ChainRanges, cmd \in {"cat", "newline"}}

\* the cyclic registries, and registries whose guest language injects nothing
ChainConfigs == MutualConfigs \cup FormattedGuestConfigs

ChainSources == BSeq({NL, DQ}, MaxLen)

InitChain ==
  /\ input \in [source : ChainSources, printwidth : {MaxWidth},
                language : {"host"}, skip_root : {FALSE}]
  /\ \E c \in ChainConfigs :
       /\ grammars = c.grammars
       /\ languages = c.languages
       /\ formatters = c.formatters
  /\ frames = <<>>
  /\ run = 1
  /\ first_ret = NoRet
  /\ esc = EscIdle
  /\ util = Idle
  /\ proc = Idle
  /\ merged = Idle
  /\ doc = Idle

\* the task of region i runs lines 178-202 and calls format_recursive: the
\* chain goes on with that call (a task that fails at line 180 ends it)
Descend(i) ==
  /\ Top \in DOMAIN frames
  /\ frames[Top].phase = "mapping"
  /\ \E pre \in {region_pre(frames[Top], frames[Top].regions[i])} :
       frames' = IF pre.ok THEN (Top :> child_call(frames[Top], pre))
                 ELSE (Top :> [frames[Top] EXCEPT !.phase = "returned", !.ret = Err])
  /\ UNCHANGED <<input, grammars, languages, formatters, run, first_ret, esc,
                  util, proc, merged, doc>>

\* the regions of the innermost call
ChainRegions ==
  IF Top \in DOMAIN frames THEN 1..Len(frames[Top].regions) ELSE {}

NextChain ==
  \/ Start
  \/ \E i \in ChainRegions : Descend(i)

\* every call that is made runs, and so does every task of a parallel map
SpecChain == InitChain /\ [][NextChain]_vars /\ WF_vars(NextChain)

(***************************************************************************)
(* The escape round trip of one region text: the escape set is sorted      *)
(* (line 179), the text unescaped (lines 181-185), the child's output      *)
(* escaped again (lines 212-215); the child returns its input.             *)
(***************************************************************************)
EscTokens == { <<LT>>, <<LT, LT>>, <<BS>> }

EscTexts == BSeq({LT, BS, SP}, MaxTextLen)

\* no run of the driver: the registries empty, no call made
DriverIdle ==
  /\ input = [source |-> <<>>, printwidth |-> MaxWidth,
              language |-> "host", skip_root |-> FALSE]
  /\ grammars = <<>>
  /\ languages = <<>>
  /\ formatters = <<>>
  /\ frames = <<>>
  /\ run = 1
  /\ first_ret = NoRet

InitEscape ==
  /\ DriverIdle
  /\ esc \in {[EscIdle EXCEPT !.pc = "start", !.set = c, !.text = t] :
                c \in SUBSET EscTokens, t \in EscTexts}
  /\ util = Idle
  /\ proc = Idle
  /\ merged = Idle
  /\ doc = Idle

\* line 179: the set is iterated in some order and the list sorted
SortEscapeChars ==
  /\ esc.pc = "start"
  /\ \E iter \in Perms(esc.set) :
       esc' = [esc EXCEPT !.pc = "sorted", !.list = sort_by_len_lex(iter)]
  /\ UNCHANGED <<driver, util, proc, merged, doc>>

\* lines 181-185
Unescape ==
  /\ esc.pc = "sorted"
  /\ esc' = [esc EXCEPT !.pc = "unescaped",
                        !.unescaped = IF esc.list = <<>> THEN esc.text
                                      ELSE unescape_text(esc.text, esc.list)]
  /\ UNCHANGED <<driver, util, proc, merged, doc>>

\* lines 212-215
Escape ==
  /\ esc.pc = "unescaped"
  /\ esc' = [esc EXCEPT !.pc = "escaped",
                        !.escaped = IF esc.list = <<>> THEN esc.unescaped
                                    ELSE escape_text(esc.unescaped, esc.list)]
  /\ UNCHANGED <<driver, util, proc, merged, doc>>

\* lines 212-215, on a text that holds no escape yet (a formatter's output)
EscapeFirst ==
  /\ esc.pc = "sorted"
  /\ esc' = [esc EXCEPT !.pc = "escaped_first",
                        !.escaped = IF esc.list = <<>> THEN esc.text
                                    ELSE escape_text(esc.text, esc.list)]
  /\ UNCHANGED <<driver, util, proc, merged, doc>>

\* lines 181-185, on what lines 212-215 produced
UnescapeBack ==
  /\ esc.pc = "escaped_first"
  /\ esc' = [esc EXCEPT !.pc = "unescaped_back",
                        !.unescaped = IF esc.list = <<>> THEN esc.escaped
                                      ELSE unescape_text(esc.escaped, esc.list)]
  /\ UNCHANGED <<driver, util, proc, merged, doc>>

NextEscape ==
  SortEscapeChars \/ Unescape \/ Escape \/ EscapeFirst \/ UnescapeBack

SpecEscape == InitEscape /\ [][NextEscape]_vars

(***************************************************************************)
(* Re-indent followed by dedent of one text: offset_lines (lines 31-51),   *)
(* then strip_leading_indent (lines 89-113), with the same indent.         *)
(***************************************************************************)
IndentTexts == BSeq({NL, CR, SP, DQ}, MaxTextLen)

InitIndent ==
  /\ DriverIdle
  /\ esc = EscIdle
  /\ util \in {[pc |-> "start", text |-> t, n |-> n,
                 offset |-> <<>>, stripped |-> <<>>] :
                 t \in IndentTexts, n \in 1..MaxIndent}
  /\ proc = Idle
  /\ merged = Idle
  /\ doc = Idle

OffsetLines ==
  /\ util.pc = "start"
  /\ util' = [util EXCEPT !.pc = "offset",
                          !.offset = offset_lines(util.text, util.n)]
  /\ UNCHANGED <<driver, esc, proc, merged, doc>>

StripLeadingIndent ==
  /\ util.pc = "offset"
  /\ util' = [util EXCEPT !.pc = "stripped",
                          !.stripped = strip_leading_indent(util.offset, util.n)]
  /\ UNCHANGED <<driver, esc, proc, merged, doc>>

NextIndent == OffsetLines \/ StripLeadingIndent

SpecIndent == InitIndent /\ [][NextIndent]_vars

(***************************************************************************)
(* formatters/align_comments: Edit (lines 92-96) and apply_edits (lines    *)
(* 129-140).  An edit is [start_byte, end_byte, replacement].              *)
(***************************************************************************)
Edit(start, end, replacement) ==
  [start_byte |-> start, end_byte |-> end, replacement |-> replacement]

\* Vec::insert of one edit behind every edit that does not start before it
InsertEdit(sorted, e, k) ==
  SubSeq(sorted, 1, k) \o <<e>> \o SubSeq(sorted, k + 1, Len(sorted))

InsertEditStable(sorted, e) ==
  InsertEdit(sorted, e,
    Cardinality({i \in DOMAIN sorted : sorted[i].start_byte >= e.start_byte}))

\* edits.sort_by(|a, b| b.start_byte.cmp(&a.start_byte)): a stable sort,
\* descending by start_byte, edits of equal start_byte kept in supplied order
RECURSIVE SortFrom(_, _, _)
SortFrom(edits, i, sorted) ==
  IF i > Len(edits) THEN sorted
  ELSE SortFrom(edits, i + 1, InsertEditStable(sorted, edits[i]))

sort_by_start_byte_desc(edits) == SortFrom(edits, 1, <<>>)

\* the replacement put in front of the range, the range itself kept
insert_before_range(result, edit) ==
  SubSeq(result, 1, edit.start_byte) \o edit.replacement
    \o SubSeq(result, edit.start_byte + 1, Len(result))

\* [before, &edit.replacement, after].concat()
splice_edit(result, edit) ==
  SubSeq(result, 1, edit.start_byte) \o edit.replacement
    \o SubSeq(result, edit.end_byte + 1, Len(result))

RECURSIVE apply_loop(_, _, _)
apply_loop(result, edits, i) ==
  IF i > Len(edits) THEN result
  ELSE apply_loop(splice_edit(result, edits[i]), edits, i + 1)

apply_edits(source, edits) ==
  apply_loop(source, sort_by_start_byte_desc(edits), 1)

\* the buffers and the batches of edits: ranges inside the buffer, no two
\* of them overlapping (one ends where or before the other starts)
Buffers == {SubSeq(<<NL, SP, DQ, CR>>, 1, k) : k \in 0..MaxBuf}

Replacements == {<<>>, <<BS>>, <<LT, LT>>}

EditsOf(buffer) ==
  {Edit(s, e, r) : s \in 0..Len(buffer), e \in 0..Len(buffer), r \in Replacements}

Disjoint(a, b) == a.end_byte <= b.start_byte \/ b.end_byte <= a.start_byte

NonOverlapping(edits) ==
  /\ \A k \in DOMAIN edits : edits[k].start_byte <= edits[k].end_byte
  /\ \A j, k \in DOMAIN edits : j # k => Disjoint(edits[j], edits[k])

Batches(buffer) == {b \in BSeq(EditsOf(buffer), MaxEdits) : NonOverlapping(b)}

InitEdits ==
  /\ DriverIdle
  /\ esc = EscIdle
  /\ \E buffer \in Buffers :
       util \in {[pc |-> "edits", source |-> buffer, edits |-> b,
                  sorted |-> <<>>, i |-> 1, result |-> buffer] :
                  b \in Batches(buffer)}
  /\ proc = Idle
  /\ merged = Idle
  /\ doc = Idle

\* line 130
SortEdits ==
  /\ util.pc = "edits"
  /\ util' = [util EXCEPT !.pc = "applying",
                          !.sorted = sort_by_start_byte_desc(util.edits)]
  /\ UNCHANGED <<driver, esc, proc, merged, doc>>

\* one turn of the loop of lines 133-137
ApplyEdit ==
  /\ util.pc = "applying"
  /\ util.i <= Len(util.sorted)
  /\ util' = [util EXCEPT !.i = util.i + 1,
                          !.result = splice_edit(util.result, util.sorted[util.i])]
  /\ UNCHANGED <<driver, esc, proc, merged, doc>>

\* line 139
ReturnEdited ==
  /\ util.pc = "applying"
  /\ util.i > Len(util.sorted)
  /\ util' = [util EXCEPT !.pc = "applied"]
  /\ UNCHANGED <<driver, esc, proc, merged, doc>>

NextEdits == SortEdits \/ ApplyEdit \/ ReturnEdited

SpecEdits == InitEdits /\ [][NextEdits]_vars

(***************************************************************************)
(* api::format::format step by step: the temporary file, the formatter     *)
(* process and what is made of its exit.  An Option is <<>> (None) or      *)
(* <<v>> (Some(v)).  Every call of the file system or of the process may   *)
(* fail; fs::remove_file, whose result line 94 drops, is taken to succeed. *)
(***************************************************************************)
None == <<>>

Some(v) == <<v>>

unwrap_or(opt, default) == IF opt = None THEN default ELSE opt[1]

\* any byte on standard error fails the call, whatever fail_on_stderr is
stderr_always_fails(fail_on_stderr, stderr) == stderr # <<>>

\* line 77
stderr_fails(fail_on_stderr, stderr) ==
  unwrap_or(fail_on_stderr, FALSE) /\ stderr # <<>>

\* line 28
use_stdin(formatter) == unwrap_or(formatter.stdin, TRUE)

OptBool == {None, Some(TRUE), Some(FALSE)}

FormatterSpecs == [stdin : OptBool, fail_on_stderr : OptBool]

FormatSources == {<<>>, <<SP>>, <<SP, NL>>}

\* what a formatter process may do: its exit status, its standard error,
\* and its output (standard output, or the rewritten file in file mode)
Statuses == {0, 1}

Stderrs == {<<>>, <<DQ>>}

Outputs(source) == {source, Append(source, NL)}

InitFormat ==
  /\ DriverIdle
  /\ esc = EscIdle
  /\ util = Idle
  /\ proc \in [pc : {"start"}, formatter : FormatterSpecs, source : FormatSources,
                temp_file : {None}, file : {None}, stdin_pipe : {None},
                exited : {FALSE}, status : {0}, stdout : {<<>>}, stderr : {<<>>},
                output : {None}, result : {<<>>}, ret : {NoRet}]
  /\ merged = Idle
  /\ doc = Idle

Fail == [proc EXCEPT !.pc = "returned", !.ret = Err]

\* lines 31-35: in file mode the source is written to a fresh file
WriteTempFile ==
  /\ proc.pc = "start"
  /\ \/ /\ use_stdin(proc.formatter)
        /\ proc' = [proc EXCEPT !.pc = "spawn"]
     \/ /\ ~use_stdin(proc.formatter)
        /\ \/ proc' = [proc EXCEPT !.pc = "spawn", !.temp_file = Some("path"),
                                     !.file = Some(proc.source)]
           \/ proc' = Fail
  /\ UNCHANGED <<driver, esc, util, merged, doc>>

\* lines 57-65: the process is started and, in stdin mode, given the source
Spawn ==
  /\ proc.pc = "spawn"
  /\ \/ proc' = [proc EXCEPT !.pc = "running",
                               !.stdin_pipe = IF use_stdin(proc.formatter)
                                              THEN Some(proc.source) ELSE None]
     \/ proc' = Fail
  /\ UNCHANGED <<driver, esc, util, merged, doc>>

\* the formatter process: it writes its output, to standard output or over
\* the file, and exits
ProcessExit ==
  /\ proc.pc = "running"
  /\ \E status \in Statuses, stderr \in Stderrs, out \in Outputs(proc.source) :
       proc' = [proc EXCEPT !.pc = "wait", !.exited = TRUE, !.status = status,
                            !.stderr = stderr, !.output = Some(out),
                            !.stdout = IF use_stdin(proc.formatter) THEN out ELSE <<>>,
                            !.file = IF use_stdin(proc.formatter) THEN proc.file
                                     ELSE Some(out)]
  /\ UNCHANGED <<driver, esc, util, merged, doc>>

\* line 67
WaitWithOutput ==
  /\ proc.pc = "wait"
  /\ \/ proc' = [proc EXCEPT !.pc = "check"]
     \/ proc' = [Fail EXCEPT !.exited = FALSE]
  /\ UNCHANGED <<driver, esc, util, merged, doc>>

\* lines 69-85
CheckOutput ==
  /\ proc.pc = "check"
  /\ proc' = IF proc.status # 0 THEN Fail
             ELSE IF stderr_fails(proc.formatter.fail_on_stderr, proc.stderr) THEN Fail
             ELSE [proc EXCEPT !.pc = "read", !.result = proc.stdout]
  /\ UNCHANGED <<driver, esc, util, merged, doc>>

\* lines 87-91: in file mode the file is read back
ReadBack ==
  /\ proc.pc = "read"
  /\ \/ /\ proc.temp_file = None
        /\ proc' = [proc EXCEPT !.pc = "remove"]
     \/ /\ proc.temp_file # None
        /\ \/ proc' = [proc EXCEPT !.pc = "remove", !.result = proc.file[1]]
           \/ proc' = Fail
  /\ UNCHANGED <<driver, esc, util, merged, doc>>

\* lines 93-103
RemoveAndReturn ==
  /\ proc.pc = "remove"
  /\ proc' = [proc EXCEPT !.pc = "returned", !.ret = Ok(proc.result),
                          !.file = None]
  /\ UNCHANGED <<driver, esc, util, merged, doc>>

NextFormat ==
  \/ WriteTempFile
  \/ Spawn
  \/ ProcessExit
  \/ WaitWithOutput
  \/ CheckOutput
  \/ ReadBack
  \/ RemoveAndReturn

SpecFormat == InitFormat /\ [][NextFormat]_vars

(***************************************************************************)
(* config.rs: PrunerConfig (lines 66-78) and PrunerConfig::merge (lines    *)
(* 129-146), applied to a base and then to each overlay in turn.  A map is *)
(* a function from its keys; a path or a value is named after the          *)
(* configuration that contributes it.                                      *)
(***************************************************************************)
\* the keys of the overlay added, the values of the base kept
merge_maps_keep_base(base, overlay) ==
  IF base = None /\ overlay = None THEN None
  ELSE IF overlay = None THEN base
  ELSE IF base = None THEN overlay
  ELSE Some([k \in DOMAIN base[1] \cup DOMAIN overlay[1] |->
               IF k \in DOMAIN base[1] THEN base[1][k] ELSE overlay[1][k]])

\* lines 95-105
merge_vecs(base, overlay) ==
  IF base = None /\ overlay = None THEN None
  ELSE IF overlay = None THEN base
  ELSE IF base = None THEN overlay
  ELSE Some(base[1] \o overlay[1])

\* lines 107-120: HashMap::extend lets the overlay's value replace the base's
merge_maps(base, overlay) ==
  IF base = None /\ overlay = None THEN None
  ELSE IF overlay = None THEN base
  ELSE IF base = None THEN overlay
  ELSE Some([k \in DOMAIN base[1] \cup DOMAIN overlay[1] |->
               IF k \in DOMAIN overlay[1] THEN overlay[1][k] ELSE base[1][k]])

\* Option::or_else
or_else(opt, other) == IF opt # None THEN opt ELSE other

\* lines 129-146
merge(base, overlay) ==
  [query_paths |-> merge_vecs(base.query_paths, overlay.query_paths),
   grammar_paths |-> merge_vecs(base.grammar_paths, overlay.grammar_paths),
   grammar_download_dir |->
     or_else(overlay.grammar_download_dir, base.grammar_download_dir),
   grammar_build_dir |-> or_else(overlay.grammar_build_dir, base.grammar_build_dir),
   grammars |-> merge_maps(base.grammars, overlay.grammars),
   languages |-> merge_maps(base.languages, overlay.languages),
   formatters |-> merge_maps(base.formatters, overlay.formatters),
   wasm_formatters |-> merge_maps(base.wasm_formatters, overlay.wasm_formatters)]

\* the configurations file number k may hold: what it says of the two
\* lists, of the two directories and of the four maps
PathChoices(k) ==
  { <<None, None, None, None>>,
    <<Some(<<k>>), None, Some(k), None>>,
    <<Some(<<k, k>>), Some(<<>>), None, Some(k)>> }

MapChoices(k) ==
  { <<None, None, None, None>>,
    <<None, Some([a |-> k]), Some([a |-> k, b |-> k]), Some(<<>>)>>,
    <<Some([a |-> k]), Some([b |-> k]), None, None>> }

PrunerConfig(p, m) ==
  [query_paths |-> p[1], grammar_paths |-> p[2],
   grammar_download_dir |-> p[3], grammar_build_dir |-> p[4],
   grammars |-> m[1], languages |-> m[2], formatters |-> m[3],
   wasm_formatters |-> m[4]]

ConfigFiles(k) ==
  {PrunerConfig(p, m) : p \in PathChoices(k), m \in MapChoices(k)}

RECURSIVE OverlayLists(_)
OverlayLists(n) ==
  IF n = 0 THEN {<<>>}
  ELSE OverlayLists(n - 1)
         \cup {Append(l, c) : l \in {x \in OverlayLists(n - 1) : Len(x) = n - 1},
                              c \in ConfigFiles(n)}

InitMerge ==
  /\ DriverIdle
  /\ esc = EscIdle
  /\ util = Idle
  /\ proc = Idle
  /\ merged \in {[pc |-> "merge", base |-> b, overlays |-> l, applied |-> 0,
                   before |-> b, config |-> b] :
                   b \in ConfigFiles(0), l \in OverlayLists(MaxOverlays)}
  /\ doc = Idle

\* one call of PrunerConfig::merge, with the next overlay
MergeOverlay ==
  /\ merged.pc = "merge"
  /\ merged.applied < Len(merged.overlays)
  /\ merged' = [merged EXCEPT
                  !.applied = merged.applied + 1,
                  !.before = merged.config,
                  !.config = merge(merged.config, merged.overlays[merged.applied + 1])]
  /\ UNCHANGED <<driver, esc, util, proc, doc>>

\* the configuration is loaded once every overlay is merged
Loaded ==
  /\ merged.pc = "merge"
  /\ merged.applied = Len(merged.overlays)
  /\ merged' = [merged EXCEPT !.pc = "loaded"]
  /\ UNCHANGED <<driver, esc, util, proc, doc>>

NextMerge == MergeOverlay \/ Loaded

SpecMerge == InitMerge /\ [][NextMerge]_vars

(***************************************************************************)
(* formatters/align_comments: Component::format (lines 142-208) on a       *)
(* Clojure source.  The source is a list of lines, each a form, a comment, *)
(* or a form followed by a comment, behind some spaces; its syntax tree is *)
(* the list of these nodes, all children of the root, which is what the    *)
(* parser of lines 144-153 yields for such a source.  A node is named by   *)
(* its place in that list.                                                 *)
(***************************************************************************)
LineKinds == {"form", "form_c2", "form_c1", "c2", "c1"}

SourceLines == [kind : LineKinds, indent : 0..MaxCol]

\* two comments, each followed by a form of its own
TwoGroups ==
  {<<[kind |-> "c2", indent |-> c[1]], [kind |-> "form", indent |-> c[2]],
     [kind |-> "c2", indent |-> c[3]], [kind |-> "form", indent |-> c[4]]>> :
     c \in [1..4 -> 0..MaxCol]}

Documents == BSeq(SourceLines, MaxLines) \cup TwoGroups

Content(kind) ==
  CASE kind = "form" -> <<LT>>
    [] kind = "form_c2" -> <<LT, SP, SEMI, SEMI>>
    [] kind = "form_c1" -> <<LT, SP, SEMI>>
    [] kind = "c2" -> <<SEMI, SEMI>>
    [] kind = "c1" -> <<SEMI>>

LineBytes(line) == Spaces(line.indent) \o Content(line.kind) \o <<NL>>

DocBytes(doc_lines) == Concat([k \in DOMAIN doc_lines |-> LineBytes(doc_lines[k])])

\* the byte at which line k starts
RECURSIVE Offset(_, _)
Offset(doc_lines, k) ==
  IF k = 1 THEN 0
  ELSE Offset(doc_lines, k - 1) + Len(LineBytes(doc_lines[k - 1]))

Node(kind, start_byte, end_byte, row, col) ==
  [kind |-> kind, start_byte |-> start_byte, end_byte |-> end_byte,
   start_row |-> row, start_col |-> col]

\* the nodes of one line: a comment runs up to the end of its line
NodesOfLine(line, row, start) ==
  IF line.kind \in {"c2", "c1"}
  THEN <<Node("comment", start + line.indent,
              start + line.indent + Len(Content(line.kind)), row, line.indent)>>
  ELSE <<Node("form", start + line.indent, start + line.indent + 1, row, line.indent)>>
         \o (IF line.kind = "form"
             THEN <<>>
             ELSE <<Node("comment", start + line.indent + 2,
                         start + line.indent + Len(Content(line.kind)),
                         row, line.indent + 2)>>)

\* lines 151-153: the named children of the root, in document order
Parse(doc_lines) ==
  Concat([k \in DOMAIN doc_lines |->
            NodesOfLine(doc_lines[k], k - 1, Offset(doc_lines, k))])

\* every comment taken for one that starts with two semicolons
is_comment_always(source, comment) == TRUE

\* lines 30-37
is_double_comment(source, comment) ==
  IF comment.start_byte + 2 <= Len(source)
  THEN SubSeq(source, comment.start_byte + 1, comment.start_byte + 2) = <<SEMI, SEMI>>
  ELSE FALSE

\* the column of the group's last comment, whatever follows it
last_comment_col(nodes, n) == None

\* lines 39-49
get_next_named_sibling_col(nodes, n) ==
  IF n + 1 > Len(nodes) THEN None
  ELSE IF nodes[n + 1].start_row = nodes[n].start_row THEN None
  ELSE Some(nodes[n + 1].start_col)

\* lines 51-54
get_prev_named_sibling_row(nodes, n) ==
  IF n = 1 THEN None ELSE Some(nodes[n - 1].start_row)

\* lines 56-58
is_same_node(a, b) == a.start_byte = b.start_byte /\ a.end_byte = b.end_byte

\* lines 168-178: is node n pushed to comment_nodes
Kept(source, nodes, n) ==
  /\ nodes[n].kind = "comment"
  /\ is_double_comment(source, nodes[n])
  /\ get_prev_named_sibling_row(nodes, n) # Some(nodes[n].start_row)

\* lines 161-180
comment_nodes(source, nodes) ==
  SelectSeq([n \in DOMAIN nodes |-> n], LAMBDA n : Kept(source, nodes, n))

\* lines 70-76: is the comment a sibling of the comment before it in the list
Related(nodes, n, prev) ==
  \/ (n > 1 /\ is_same_node(nodes[n - 1], nodes[prev]))
  \/ (n < Len(nodes) /\ is_same_node(nodes[n + 1], nodes[prev]))

\* lines 64-83
RECURSIVE GroupFrom(_, _, _, _, _)
GroupFrom(nodes, comments, i, groups, current_group) ==
  IF i > Len(comments)
  THEN (IF current_group = <<>> THEN groups ELSE Append(groups, current_group))
  ELSE IF current_group = <<>>
  THEN GroupFrom(nodes, comments, i + 1, groups, <<comments[i]>>)
  ELSE IF Related(nodes, comments[i], comments[i - 1])
  THEN GroupFrom(nodes, comments, i + 1, groups, Append(current_group, comments[i]))
  ELSE GroupFrom(nodes, comments, i + 1, Append(groups, current_group), <<comments[i]>>)

\* lines 60-90
group_related_comments(nodes, comments) == GroupFrom(nodes, comments, 1, <<>>, <<>>)

\* lines 121-127
RECURSIVE find_line_start(_, _)
find_line_start(source, pos) ==
  IF pos > 0 /\ source[pos] # NL THEN find_line_start(source, pos - 1) ELSE pos

\* lines 98-119
RECURSIVE align_comment_group(_, _, _, _, _)
align_comment_group(source, nodes, group, target_col, i) ==
  IF i > Len(group) THEN <<>>
  ELSE (IF nodes[group[i]].start_col = target_col THEN <<>>
        ELSE <<Edit(find_line_start(source, nodes[group[i]].start_byte),
                    nodes[group[i]].start_byte, Spaces(target_col))>>)
       \o align_comment_group(source, nodes, group, target_col, i + 1)

\* lines 195-201
GroupEdits(source, nodes, group) ==
  align_comment_group(source, nodes, group,
    unwrap_or(get_next_named_sibling_col(nodes, group[Len(group)]),
              nodes[group[Len(group)]].start_col),
    1)

\* lines 188-203
AllEdits(source, nodes, groups) ==
  Concat([g \in DOMAIN groups |-> GroupEdits(source, nodes, groups[g])])

InitAlign ==
  /\ DriverIdle
  /\ esc = EscIdle
  /\ util = Idle
  /\ proc = Idle
  /\ merged = Idle
  /\ doc \in {[pc |-> "source", lines |-> l, source |-> DocBytes(l), nodes |-> <<>>,
                comments |-> <<>>, groups |-> <<>>, edits |-> <<>>,
                result |-> <<>>] : l \in Documents}

\* lines 144-180: the source is parsed and its comments collected
CollectComments ==
  /\ doc.pc = "source"
  /\ \E nodes \in {Parse(doc.lines)} :
       doc' = [doc EXCEPT !.pc = "collected", !.nodes = nodes,
                          !.comments = comment_nodes(doc.source, nodes)]
  /\ UNCHANGED <<driver, esc, util, proc, merged>>

\* lines 182-184
ReturnSource ==
  /\ doc.pc = "collected"
  /\ doc.comments = <<>>
  /\ doc' = [doc EXCEPT !.pc = "returned", !.result = doc.source]
  /\ UNCHANGED <<driver, esc, util, proc, merged>>

\* line 186
GroupComments ==
  /\ doc.pc = "collected"
  /\ doc.comments # <<>>
  /\ doc' = [doc EXCEPT !.pc = "grouped",
                        !.groups = group_related_comments(doc.nodes, doc.comments)]
  /\ UNCHANGED <<driver, esc, util, proc, merged>>

\* lines 188-203
AlignGroups ==
  /\ doc.pc = "grouped"
  /\ doc' = [doc EXCEPT !.pc = "aligned",
                        !.edits = AllEdits(doc.source, doc.nodes, doc.groups)]
  /\ UNCHANGED <<driver, esc, util, proc, merged>>

\* lines 205-206
ApplyAllEdits ==
  /\ doc.pc = "aligned"
  /\ doc' = [doc EXCEPT !.pc = "returned",
                        !.result = apply_edits(doc.source, doc.edits)]
  /\ UNCHANGED <<driver, esc, util, proc, merged>>

NextAlign ==
  \/ CollectComments
  \/ ReturnSource
  \/ GroupComments
  \/ AlignGroups
  \/ ApplyAllEdits

SpecAlign == InitAlign /\ [][NextAlign]_vars

(***************************************************************************)
(* formatters/trim_newlines (and plugins/trim-newlines, the same code):    *)
(* Component::format, lines 12-25, applied to a buffer and to its result.  *)
(***************************************************************************)
IsNewline(b) == b = NL \/ b = CR

\* the first loop stopped at the first '\r'
RECURSIVE skip_leading_nl_only(_, _, _)
skip_leading_nl_only(source, start, end) ==
  IF start < end /\ source[start + 1] = NL
  THEN skip_leading_nl_only(source, start + 1, end) ELSE start

\* lines 16-18
RECURSIVE skip_leading(_, _, _)
skip_leading(source, start, end) ==
  IF start < end /\ IsNewline(source[start + 1])
  THEN skip_leading(source, start + 1, end) ELSE start

\* lines 20-22
RECURSIVE skip_trailing(_, _, _)
skip_trailing(source, start, end) ==
  IF end > start /\ IsNewline(source[end])
  THEN skip_trailing(source, start, end - 1) ELSE end

TrimSlice(source, start) ==
  SubSeq(source, start + 1, skip_trailing(source, start, Len(source)))

\* lines 12-25
trim_newlines(source) == TrimSlice(source, skip_leading(source, 0, Len(source)))

InitTrim ==
  /\ DriverIdle
  /\ esc = EscIdle
  /\ util \in {[pc |-> "untrimmed", text |-> t, once |-> <<>>, twice |-> <<>>] :
                 t \in IndentTexts}
  /\ proc = Idle
  /\ merged = Idle
  /\ doc = Idle

TrimNewlines ==
  /\ util.pc = "untrimmed"
  /\ util' = [util EXCEPT !.pc = "trimmed", !.once = trim_newlines(util.text)]
  /\ UNCHANGED <<driver, esc, proc, merged, doc>>

TrimAgain ==
  /\ util.pc = "trimmed"
  /\ util' = [util EXCEPT !.pc = "trimmed_twice", !.twice = trim_newlines(util.once)]
  /\ UNCHANGED <<driver, esc, proc, merged, doc>>

NextTrim == TrimNewlines \/ TrimAgain

SpecTrim == InitTrim /\ [][NextTrim]_vars

(***************************************************************************)
(* File-mode invocations of api::format::format made by the parallel       *)
(* regions of one call of format_recursive (commands/format.rs lines       *)
(* 175-221): the regions share the process identifier, the clock and the   *)
(* temporary directory, and their steps interleave.                        *)
(***************************************************************************)
MaxPar == 2

MaxClock == 2

\* lines 18-23: the path is made of the temporary directory, the process
\* identifier and the nanoseconds of the system clock; among the calls of
\* one process it is a function of the clock reading alone
unique_temp_file(nanos) == nanos

ParSources == {<<NL>>, <<SP>>}

\* the formatter of the regions formats the file in place
format_in_place(bytes) == bytes \o <<NL>>

ParCall(source) == [pc |-> "start", source |-> source, temp_file |-> None, ret |-> NoRet]

InitTemp ==
  /\ DriverIdle
  /\ esc = EscIdle
  /\ util = Idle
  /\ proc \in [pc : {"parallel"}, now : {0}, fs : {[path \in 0..MaxClock |-> None]},
               calls : {[i \in 1..MaxPar |-> ParCall(src[i])] :
                          src \in [1..MaxPar -> ParSources]}]
  /\ merged = Idle
  /\ doc = Idle

\* the system clock advances between two steps, or does not
ClockTick ==
  /\ proc.pc = "parallel"
  /\ proc.now < MaxClock
  /\ proc' = [proc EXCEPT !.now = proc.now + 1]
  /\ UNCHANGED <<driver, esc, util, merged, doc>>

\* line 32: the region reads the clock and names its file
TakeTempPath(i) ==
  /\ proc.pc = "parallel"
  /\ proc.calls[i].pc = "start"
  /\ proc' = [proc EXCEPT !.calls[i].pc = "named",
                          !.calls[i].temp_file = Some(unique_temp_file(proc.now))]
  /\ UNCHANGED <<driver, esc, util, merged, doc>>

\* line 33: fs::write creates the file or replaces its content
WriteRegionFile(i) ==
  /\ proc.pc = "parallel"
  /\ proc.calls[i].pc = "named"
  /\ proc' = [proc EXCEPT !.calls[i].pc = "written",
                          !.fs[proc.calls[i].temp_file[1]] = Some(proc.calls[i].source)]
  /\ UNCHANGED <<driver, esc, util, merged, doc>>

\* lines 57-75: the formatter process rewrites the file named by $file and
\* exits with status 0, or finds no file and exits with another status, on
\* which the call bails
RunRegionFormatter(i) ==
  /\ proc.pc = "parallel"
  /\ proc.calls[i].pc = "written"
  /\ \E path \in {proc.calls[i].temp_file[1]} :
       IF proc.fs[path] = None
       THEN proc' = [proc EXCEPT !.calls[i].pc = "returned", !.calls[i].ret = Err]
       ELSE proc' = [proc EXCEPT !.calls[i].pc = "exited",
                                 !.fs[path] = Some(format_in_place(proc.fs[path][1]))]
  /\ UNCHANGED <<driver, esc, util, merged, doc>>

\* lines 87-91: the file is read back; the call returns the error of a
\* failed read
ReadRegionFile(i) ==
  /\ proc.pc = "parallel"
  /\ proc.calls[i].pc = "exited"
  /\ \E path \in {proc.calls[i].temp_file[1]} :
       IF proc.fs[path] = None
       THEN proc' = [proc EXCEPT !.calls[i].pc = "returned", !.calls[i].ret = Err]
       ELSE proc' = [proc EXCEPT !.calls[i].pc = "read",
                                 !.calls[i].ret = Ok(proc.fs[path][1])]
  /\ UNCHANGED <<driver, esc, util, merged, doc>>

\* lines 93-103: the file is removed, a failure to remove it ignored
RemoveRegionFile(i) ==
  /\ proc.pc = "parallel"
  /\ proc.calls[i].pc = "read"
  /\ proc' = [proc EXCEPT !.calls[i].pc = "returned",
                          !.fs[proc.calls[i].temp_file[1]] = None]
  /\ UNCHANGED <<driver, esc, util, merged, doc>>

NextTemp ==
  \/ ClockTick
  \/ \E i \in 1..MaxPar : TakeTempPath(i)
  \/ \E i \in 1..MaxPar : WriteRegionFile(i)
  \/ \E i \in 1..MaxPar : RunRegionFormatter(i)
  \/ \E i \in 1..MaxPar : ReadRegionFile(i)
  \/ \E i \in 1..MaxPar : RemoveRegionFile(i)

SpecTemp == InitTemp /\ [][NextTemp]_vars

(***************************************************************************)
(* The parallel map of format_recursive (commands/format.rs lines 175-211) *)
(* on the shared pool of rayon: a call formats its text (a blocking        *)
(* formatter invocation), extracts its regions and maps them in parallel,  *)
(* each region's task being a call of the same kind; the thread that waits *)
(* for a map to be collected runs other tasks of the pool meanwhile.  The  *)
(* top-level call is made by the main thread, which is not a worker.       *)
(***************************************************************************)
MaxWorkers == 2

MaxFan == 2

MaxNest == 2

PoolTasks == BSeq(1..MaxFan, MaxNest)

\* the worker takes a task only when it has nothing to run
may_take_when_idle(stack, tasks) == stack = <<>>

\* a worker takes a task when it has nothing to run, and when the task it
\* runs waits in par_iter ... collect (lines 175-211) for its regions
may_take(stack, tasks) ==
  IF stack = <<>> THEN TRUE ELSE tasks[stack[Len(stack)]] = "mapping"

\* the regions of task t are all collected
regions_done(tasks, t) ==
  \A j \in 1..MaxFan :
    Len(t) < MaxNest => tasks[Append(t, j)] \in {"absent", "done"}

InitPool ==
  /\ DriverIdle
  /\ esc = EscIdle
  /\ util \in [pc : {"pool"},
               workers : {[w \in 1..n |-> <<>>] : n \in 1..MaxWorkers},
               tasks : {[t \in PoolTasks |-> IF t = <<>> THEN "formatting" ELSE "absent"]}]
  /\ proc = Idle
  /\ merged = Idle
  /\ doc = Idle

\* lines 159-175: the formatter invocation of task t returns, the regions
\* are extracted and handed to the pool
StartMap(t) ==
  /\ util.pc = "pool"
  /\ util.tasks[t] = "formatting"
  /\ \E k \in 0..(IF Len(t) < MaxNest THEN MaxFan ELSE 0) :
       util' = [util EXCEPT !.tasks = [c \in PoolTasks |->
                  IF c = t THEN "mapping"
                  ELSE IF c \in {Append(t, j) : j \in 1..k} THEN "queued"
                  ELSE util.tasks[c]]]
  /\ UNCHANGED <<driver, esc, proc, merged, doc>>

\* lines 176-211: worker w starts the closure of a region
TakeTask(w, c) ==
  /\ util.pc = "pool"
  /\ w \in DOMAIN util.workers
  /\ util.tasks[c] = "queued"
  /\ may_take(util.workers[w], util.tasks)
  /\ util' = [util EXCEPT !.workers[w] = Append(util.workers[w], c),
                          !.tasks[c] = "formatting"]
  /\ UNCHANGED <<driver, esc, proc, merged, doc>>

\* lines 211-236: the map of task t is collected and the call returns; the
\* thread that ran it goes back to what it did before
Collect(t) ==
  /\ util.pc = "pool"
  /\ util.tasks[t] = "mapping"
  /\ regions_done(util.tasks, t)
  /\ \/ /\ t = <<>>
        /\ util' = [util EXCEPT !.tasks[t] = "done"]
     \/ \E w \in DOMAIN util.workers :
          /\ util.workers[w] # <<>>
          /\ util.workers[w][Len(util.workers[w])] = t
          /\ util' = [util EXCEPT !.tasks[t] = "done",
                                  !.workers[w] = SubSeq(util.workers[w], 1,
                                                        Len(util.workers[w]) - 1)]
  /\ UNCHANGED <<driver, esc, proc, merged, doc>>

NextPool ==
  \/ \E t \in PoolTasks : StartMap(t)
  \/ \E w \in 1..MaxWorkers, c \in PoolTasks : TakeTask(w, c)
  \/ \E t \in PoolTasks : Collect(t)

SpecPool == InitPool /\ [][NextPool]_vars /\ WF_vars(NextPool)

(***************************************************************************)
(* api::format::format in stdin mode with the two pipes between the driver *)
(* and the formatter process (api/format.rs lines 49-67).  A pipe holds at *)
(* most MaxPipe bytes: a write to a full pipe and a read from an empty one *)
(* whose other end is open block.  The formatter copies its standard input *)
(* to its standard output byte by byte and exits at end-of-file.           *)
(***************************************************************************)
MaxPipe == 1

PipeSources == BSeq({NL, SP}, MaxTextLen)

InitPipe ==
  /\ DriverIdle
  /\ esc = EscIdle
  /\ util = Idle
  /\ proc \in [pc : {"write_all"}, source : PipeSources, written : {0},
               stdin_pipe : {<<>>}, stdin_open : {TRUE},
               child : {[pc |-> "reading", hand |-> <<>>]},
               stdout_pipe : {<<>>}, stdout : {<<>>}, ret : {NoRet}]
  /\ merged = Idle
  /\ doc = Idle

\* line 64: write_all puts the next byte of the source into the pipe when
\* the pipe has room
WriteStdin ==
  /\ proc.pc = "write_all"
  /\ proc.written < Len(proc.source)
  /\ Len(proc.stdin_pipe) < MaxPipe
  /\ proc' = [proc EXCEPT !.written = proc.written + 1,
                          !.stdin_pipe = Append(proc.stdin_pipe,
                                                proc.source[proc.written + 1])]
  /\ UNCHANGED <<driver, esc, util, merged, doc>>

\* lines 64-67: write_all has written the whole source; wait_with_output
\* closes the child's standard input and starts to read its output
CloseStdin ==
  /\ proc.pc = "write_all"
  /\ proc.written = Len(proc.source)
  /\ proc' = [proc EXCEPT !.pc = "wait", !.stdin_open = FALSE]
  /\ UNCHANGED <<driver, esc, util, merged, doc>>

\* line 67: wait_with_output reads what the child has written
ReadStdout ==
  /\ proc.pc = "wait"
  /\ proc.stdout_pipe # <<>>
  /\ proc' = [proc EXCEPT !.stdout = Append(proc.stdout, proc.stdout_pipe[1]),
                          !.stdout_pipe = Tail(proc.stdout_pipe)]
  /\ UNCHANGED <<driver, esc, util, merged, doc>>

\* lines 67-103: the child has exited and its output is read to the end
ReturnStdout ==
  /\ proc.pc = "wait"
  /\ proc.stdout_pipe = <<>>
  /\ proc.child.pc = "exited"
  /\ proc' = [proc EXCEPT !.pc = "returned", !.ret = Ok(proc.stdout)]
  /\ UNCHANGED <<driver, esc, util, merged, doc>>

\* the formatter reads a byte of its standard input
ChildRead ==
  /\ proc.pc \in {"write_all", "wait"}
  /\ proc.child.pc = "reading"
  /\ proc.stdin_pipe # <<>>
  /\ proc' = [proc EXCEPT !.child = [pc |-> "writing", hand |-> <<proc.stdin_pipe[1]>>],
                          !.stdin_pipe = Tail(proc.stdin_pipe)]
  /\ UNCHANGED <<driver, esc, util, merged, doc>>

\* the formatter writes the byte to its standard output when the pipe has
\* room
ChildWrite ==
  /\ proc.pc \in {"write_all", "wait"}
  /\ proc.child.pc = "writing"
  /\ Len(proc.stdout_pipe) < MaxPipe
  /\ proc' = [proc EXCEPT !.child = [pc |-> "reading", hand |-> <<>>],
                          !.stdout_pipe = proc.stdout_pipe \o proc.child.hand]
  /\ UNCHANGED <<driver, esc, util, merged, doc>>

\* the formatter reads end-of-file and exits
ChildExit ==
  /\ proc.pc \in {"write_all", "wait"}
  /\ proc.child.pc = "reading"
  /\ proc.stdin_pipe = <<>>
  /\ ~proc.stdin_open
  /\ proc' = [proc EXCEPT !.child = [pc |-> "exited", hand |-> <<>>]]
  /\ UNCHANGED <<driver, esc, util, merged, doc>>

NextPipe ==
  \/ WriteStdin
  \/ CloseStdin
  \/ ReadStdout
  \/ ReturnStdout
  \/ ChildRead
  \/ ChildWrite
  \/ ChildExit

SpecPipe == InitPipe /\ [][NextPipe]_vars /\ WF_vars(NextPipe)

(***************************************************************************)
(* The cache of remote components (crates/cli/src/wasm/registry.rs): the   *)
(* directory of one component name holds metadata.toml, component.wasm and *)
(* component.tmp; load_component is called with one url after another, and *)
(* every file operation and the download may fail.                         *)
(***************************************************************************)
MaxCalls == 3

Urls == {"u1", "u2"}

\* what the server of each url sends
Served(url) == IF url = "u1" THEN <<NL, NL>> ELSE <<SP, NL>>

\* lines 66-83: the digest of the bytes, here of one byte's width
RECURSIVE Digest(_, _)
Digest(bytes, h) ==
  IF bytes = <<>> THEN h ELSE Digest(Tail(bytes), (h * 31 + bytes[1]) % 256)

\* lines 190-193
ComponentMetadata(url, hash) == [url |-> url, hash |-> hash]

InitRegistry ==
  /\ DriverIdle
  /\ esc = EscIdle
  /\ util = [pc |-> "registry", calls |-> 0, url |-> "u1", hash |-> 0,
             metadata |-> None, component |-> None, tmp |-> None, ret |-> NoRet]
  /\ proc = Idle
  /\ merged = Idle
  /\ doc = Idle

\* lines 145-148, 160-166: load_component is called with an http url
LoadComponent(url) ==
  /\ util.pc \in {"registry", "returned"}
  /\ util.calls < MaxCalls
  /\ util' = [util EXCEPT !.pc = "resolve", !.calls = util.calls + 1,
                          !.url = url, !.ret = NoRet]
  /\ UNCHANGED <<driver, esc, proc, merged, doc>>

\* lines 183-187: the recorded url is the requested one and component.wasm
\* is a file: the file and the recorded hash are returned
CacheHit ==
  /\ util.pc = "resolve"
  /\ util.metadata # None
  /\ util.component # None
  /\ util.metadata[1].url = util.url
  /\ util' = [util EXCEPT !.pc = "returned",
                          !.ret = Ok(<<util.component[1], util.metadata[1].hash>>)]
  /\ UNCHANGED <<driver, esc, proc, merged, doc>>

\* lines 183-189: otherwise the component is downloaded
CacheMiss ==
  /\ util.pc = "resolve"
  /\ ~(/\ util.metadata # None
       /\ util.component # None
       /\ util.metadata[1].url = util.url)
  /\ util' = [util EXCEPT !.pc = "download"]
  /\ UNCHANGED <<driver, esc, proc, merged, doc>>

\* lines 54-84: the request fails; or k bytes reach component.tmp before a
\* read or a write fails, or all do and the rename fails; or component.tmp
\* is complete and renamed to component.wasm
DownloadToPath ==
  /\ util.pc = "download"
  /\ \/ util' = [util EXCEPT !.pc = "returned", !.ret = Err]
     \/ \E k \in 0..Len(Served(util.url)) :
          util' = [util EXCEPT !.pc = "returned", !.ret = Err,
                               !.tmp = Some(SubSeq(Served(util.url), 1, k))]
     \/ util' = [util EXCEPT !.pc = "write_metadata", !.tmp = None,
                             !.component = Some(Served(util.url)),
                             !.hash = Digest(Served(util.url), 0)]
  /\ UNCHANGED <<driver, esc, proc, merged, doc>>

\* lines 46-52, 190-196: metadata.toml is written and the call returns the
\* file and its hash; or the write fails, leaving the file as it was or
\* without a content that parses (lines 37-42 read it as None)
WriteMetadata ==
  /\ util.pc = "write_metadata"
  /\ \/ util' = [util EXCEPT !.pc = "returned",
                             !.metadata = Some(ComponentMetadata(util.url, util.hash)),
                             !.ret = Ok(<<util.component[1], util.hash>>)]
     \/ util' = [util EXCEPT !.pc = "returned", !.ret = Err]
     \/ util' = [util EXCEPT !.pc = "returned", !.ret = Err, !.metadata = None]
  /\ UNCHANGED <<driver, esc, proc, merged, doc>>

NextRegistry ==
  \/ \E url \in Urls : LoadComponent(url)
  \/ CacheHit
  \/ CacheMiss
  \/ DownloadToPath
  \/ WriteMetadata

SpecRegistry == InitRegistry /\ [][NextRegistry]_vars

(***************************************************************************)
(* align_comments on sources with a list that spans lines.  In             *)
(*     (        and in      ( ;;                                           *)
(*     ) ;;                 <                                              *)
(*     <                    )                                              *)
(* the comment of the first source is the next sibling of the list, which  *)
(* starts on the row above, and that of the second is the first named      *)
(* child of the list: the brackets are not named nodes.  The nodes are the *)
(* siblings of the comment, in document order.                             *)
(***************************************************************************)
LP == 40

RP == 41

NestedContent(kind) ==
  CASE kind = "open" -> <<LP>>
    [] kind = "close_c2" -> <<RP, SP, SEMI, SEMI>>
    [] kind = "open_c2" -> <<LP, SP, SEMI, SEMI>>
    [] kind = "close" -> <<RP>>
    [] OTHER -> Content(kind)

NestedLineBytes(line) == Spaces(line.indent) \o NestedContent(line.kind) \o <<NL>>

NestedDocBytes(doc_lines) ==
  Concat([k \in DOMAIN doc_lines |-> NestedLineBytes(doc_lines[k])])

\* the byte at which line k starts
RECURSIVE NestedOffset(_, _)
NestedOffset(doc_lines, k) ==
  IF k = 1 THEN 0
  ELSE NestedOffset(doc_lines, k - 1) + Len(NestedLineBytes(doc_lines[k - 1]))

\* the siblings that start on one line; the list opened on a line "open" ends
\* behind the bracket of the next line
NestedNodesOfLine(doc_lines, k, row, start) ==
  CASE doc_lines[k].kind = "open" ->
         <<Node("form", start + doc_lines[k].indent,
                NestedOffset(doc_lines, k + 1) + doc_lines[k + 1].indent + 1,
                row, doc_lines[k].indent)>>
    [] doc_lines[k].kind \in {"close_c2", "open_c2"} ->
         <<Node("comment", start + doc_lines[k].indent + 2,
                start + doc_lines[k].indent + 4, row, doc_lines[k].indent + 2)>>
    [] doc_lines[k].kind = "close" -> <<>>
    [] OTHER -> NodesOfLine(doc_lines[k], row, start)

\* lines 151-153
ParseNested(doc_lines) ==
  Concat([k \in DOMAIN doc_lines |->
            NestedNodesOfLine(doc_lines, k, k - 1, NestedOffset(doc_lines, k))])

Shape(kinds, cols) == [k \in DOMAIN kinds |-> [kind |-> kinds[k], indent |-> cols[k]]]

NestedDocuments ==
  {Shape(kinds, cols) :
     kinds \in {<<"open", "close_c2", "form">>, <<"open_c2", "form", "close">>,
                <<"form_c2", "form", "form">>},
     cols \in [1..3 -> 0..MaxCol]}

InitNested ==
  /\ DriverIdle
  /\ esc = EscIdle
  /\ util = Idle
  /\ proc = Idle
  /\ merged = Idle
  /\ doc \in {[pc |-> "nested", lines |-> l, source |-> NestedDocBytes(l),
               nodes |-> <<>>, comments |-> <<>>, groups |-> <<>>, edits |-> <<>>,
               result |-> <<>>] : l \in NestedDocuments}

\* lines 144-180: the source is parsed and its comments collected
CollectNested ==
  /\ doc.pc = "nested"
  /\ \E nodes \in {ParseNested(doc.lines)} :
       doc' = [doc EXCEPT !.pc = "collected", !.nodes = nodes,
                          !.comments = comment_nodes(doc.source, nodes)]
  /\ UNCHANGED <<driver, esc, util, proc, merged>>

NextNested ==
  \/ CollectNested
  \/ ReturnSource
  \/ GroupComments
  \/ AlignGroups
  \/ ApplyAllEdits

SpecNested == InitNested /\ [][NextNested]_vars

(***************************************************************************)
(* Properties                                                              *)
(***************************************************************************)
\* q is a call made, directly or not, by the call p
Under(p, q) == Len(q) > Len(p) /\ SubSeq(q, 1, Len(p)) = p

\* the source with the result of each region in the place of the region:
\* regions k.. of the frame (descending), over the first `upto` bytes
RECURSIVE Gather(_, _, _, _)
Gather(source, frame, k, upto) ==
  IF k > Len(frame.regions) THEN SubSeq(source, 1, upto)
  ELSE Gather(source, frame, k + 1, frame.regions[k].start_byte)
         \o frame.tasks[k].result.out
         \o SubSeq(source, frame.regions[k].end_byte + 1, upto)

\* C1: a call of format_recursive for a language the grammar registry has
\* no entry for returns Ok with its source byte for byte, has run no
\* formatter and no injection extraction and has made no child call,
\* whatever the source, the print width, skip_root and the formatter chain.
UnknownLanguageReturnsSource ==
  \A p \in DOMAIN frames :
    frames[p].opts.language \notin DOMAIN grammars =>
      /\ frames[p].phase = "returned"
      /\ frames[p].ret = Ok(frames[p].source)
      /\ ~frames[p].invoked
      /\ ~frames[p].extracted
      /\ \A q \in DOMAIN frames : ~Under(p, q)

\* the top-level call has returned for a root language without grammar that
\* has a registered formatter
UnknownLanguageReached ==
  /\ Top \in DOMAIN frames
  /\ input.language \notin DOMAIN grammars
  /\ first_formatter(input.language) # NoFormatter
  /\ ~input.skip_root
  /\ Len(input.source) = MaxLen
  /\ frames[Top].ret = Ok(input.source)

\* C2: a call whose language has a grammar that yields no region, and has
\* no chain, an empty chain or a chain whose first name is not registered,
\* returns Ok with its source byte for byte and has run no formatter,
\* whatever later names of the chain are registered.
NoFormatterNoRegionsReturnsSource ==
  \A p \in DOMAIN frames :
    (/\ frames[p].opts.language \in DOMAIN grammars
     /\ frames[p].regions = <<>>
     /\ \/ frames[p].opts.language \notin DOMAIN languages
        \/ languages[frames[p].opts.language] = <<>>
        \/ languages[frames[p].opts.language][1] \notin DOMAIN formatters)
    => /\ frames[p].phase = "returned"
       /\ frames[p].ret = Ok(frames[p].source)
       /\ ~frames[p].invoked

\* the top-level call has returned for a chain whose first name is not
\* registered and whose second name is
UnregisteredFirstNameReached ==
  /\ Top \in DOMAIN frames
  /\ input.language \in DOMAIN grammars
  /\ input.language \in DOMAIN languages
  /\ Len(languages[input.language]) = 2
  /\ languages[input.language][1] \notin DOMAIN formatters
  /\ languages[input.language][2] \in DOMAIN formatters
  /\ ~input.skip_root
  /\ Len(input.source) = MaxLen
  /\ frames[Top].extracted
  /\ frames[Top].ret = Ok(input.source)

RegionFailureFailsCall ==
  /\ \A p \in DOMAIN frames :
       /\ (/\ frames[p].phase = "returned"
           /\ \E i \in 1..Len(frames[p].tasks) : ~frames[p].tasks[i].result.ok)
          => ~frames[p].ret.ok
       /\ \A i \in 1..Len(frames[p].tasks) :
            (/\ frames[p].tasks[i].state = "done"
             /\ Append(p, i) \in DOMAIN frames
             /\ ~frames[Append(p, i)].ret.ok)
            => ~frames[p].tasks[i].result.ok
       /\ (frames[p].phase = "returned" /\ frames[p].ret.ok /\ frames[p].extracted)
          => /\ \A i \in 1..Len(frames[p].tasks) : frames[p].tasks[i].result.ok
             /\ frames[p].ret.out
                  = Gather(frames[p].buf, frames[p], 1, Len(frames[p].buf))
  /\ (/\ Top \in DOMAIN frames
      /\ frames[Top].phase = "returned"
      /\ \E p \in DOMAIN frames : \E i \in 1..Len(frames[p].tasks) :
           frames[p].tasks[i].state = "done" /\ ~frames[p].tasks[i].result.ok)
     => ~frames[Top].ret.ok

\* the top-level call has returned an error because a grandchild call
\* failed for one region and not for its sibling
RegionFailureReached ==
  /\ Top \in DOMAIN frames
  /\ frames[Top].phase = "returned"
  /\ ~frames[Top].ret.ok
  /\ \E p \in DOMAIN frames :
       /\ Len(p) = 1
       /\ Len(frames[p].tasks) = 2
       /\ frames[p].tasks[1].state = "done"
       /\ frames[p].tasks[2].state = "done"
       /\ frames[p].tasks[1].result.ok # frames[p].tasks[2].result.ok

\* C5: with skip_root at the top-level call the root formatter is not run
\* and the output is the input with each region's bytes replaced by that
\* region's result, the bytes before, between and after the regions kept
\* in their order; every child call is made with skip_root = false.
SkipRootKeepsSurroundings ==
  /\ (Top \in DOMAIN frames /\ input.skip_root) =>
       /\ ~frames[Top].invoked
       /\ (frames[Top].phase = "returned" /\ frames[Top].ret.ok) =>
            frames[Top].ret.out
              = Gather(input.source, frames[Top], 1, Len(input.source))
  /\ \A p \in DOMAIN frames : p # Top => ~frames[p].skip_root

\* a top-level call with skip_root, for a root language that has a
\* formatter, has returned a buffer in which a region was replaced
SkipRootReached ==
  /\ Top \in DOMAIN frames
  /\ input.skip_root
  /\ first_formatter(input.language) # NoFormatter
  /\ frames[Top].phase = "returned"
  /\ frames[Top].ret.ok
  /\ frames[Top].ret.out # input.source
  /\ Len(frames[Top].regions) > 0

\* C6: the print width of a child call is the parent's print width minus
\* the region's indent, and 1 when that is not positive; it is at least 1,
\* and at most the parent's print width when the parent's is at least 1.
ChildPrintWidth ==
  \A p \in DOMAIN frames : \A i \in 1..Len(frames[p].tasks) :
    Append(p, i) \in DOMAIN frames =>
      /\ frames[Append(p, i)].opts.printwidth
           = IF frames[p].opts.printwidth > frames[p].tasks[i].indent
             THEN frames[p].opts.printwidth - frames[p].tasks[i].indent
             ELSE 1
      /\ frames[Append(p, i)].opts.printwidth >= 1
      /\ frames[p].opts.printwidth >= 1 =>
           frames[Append(p, i)].opts.printwidth <= frames[p].opts.printwidth

\* a child call whose formatter ran was given the parent's print width
\* less a positive indent
ChildPrintWidthReached ==
  \E p \in DOMAIN frames : \E i \in 1..Len(frames[p].tasks) :
    /\ Append(p, i) \in DOMAIN frames
    /\ frames[p].tasks[i].indent > 0
    /\ frames[p].opts.printwidth > frames[p].tasks[i].indent
    /\ frames[Append(p, i)].invoked
    /\ frames[Append(p, i)].opts.printwidth < frames[p].opts.printwidth

\* C6 as stated: the same equation, and at every depth the print width
\* given to a formatter is at least 1 and at most the parent's.
PrintWidthWithinParent ==
  /\ \A p \in DOMAIN frames : frames[p].invoked => frames[p].opts.printwidth >= 1
  /\ \A p \in DOMAIN frames : \A i \in 1..Len(frames[p].tasks) :
       Append(p, i) \in DOMAIN frames =>
         /\ frames[Append(p, i)].opts.printwidth
              = IF frames[p].opts.printwidth > frames[p].tasks[i].indent
                THEN frames[p].opts.printwidth - frames[p].tasks[i].indent
                ELSE 1
         /\ frames[Append(p, i)].opts.printwidth <= frames[p].opts.printwidth

\* C7: the result of a region whose source slice ends with a newline ends
\* with exactly one newline, whatever the child call returned.
SliceNewlineGivesOneNewline ==
  \A p \in DOMAIN frames : \A i \in 1..Len(frames[p].tasks) :
    (/\ frames[p].tasks[i].state = "done"
     /\ frames[p].tasks[i].result.ok
     /\ EndsWith(source_slice(frames[p], frames[p].regions[i]), <<NL>>))
    => /\ EndsWith(frames[p].tasks[i].result.out, <<NL>>)
       /\ ~EndsWith(frames[p].tasks[i].result.out, <<NL, NL>>)

\* C8: the result of a region whose source slice does not end with a
\* newline does not end with a newline, whatever the child call returned.
NoNewlineStaysWithout ==
  \A p \in DOMAIN frames : \A i \in 1..Len(frames[p].tasks) :
    (/\ frames[p].tasks[i].state = "done"
     /\ frames[p].tasks[i].result.ok
     /\ ~EndsWith(source_slice(frames[p], frames[p].regions[i]), <<NL>>))
    => ~EndsWith(frames[p].tasks[i].result.out, <<NL>>)

\* a region whose slice has no final newline got a result from a child
\* call whose output ended with a newline
NoNewlineReached ==
  \E p \in DOMAIN frames : \E i \in 1..Len(frames[p].tasks) :
    /\ frames[p].tasks[i].state = "done"
    /\ frames[p].tasks[i].result.ok
    /\ frames[p].tasks[i].result.out # <<>>
    /\ ~EndsWith(source_slice(frames[p], frames[p].regions[i]), <<NL>>)
    /\ Append(p, i) \in DOMAIN frames
    /\ EndsWith(frames[Append(p, i)].ret.out, <<NL>>)

\* C9: the result of a region whose language has no grammar is the
\* region's slice of the working buffer, byte for byte; stated for the
\* regions without escape characters, where no question of what the host
\* escaped arises.
UnknownRegionUnchanged ==
  \A p \in DOMAIN frames : \A i \in 1..Len(frames[p].tasks) :
    (/\ frames[p].tasks[i].state = "done"
     /\ frames[p].regions[i].lang \notin DOMAIN grammars
     /\ frames[p].regions[i].escape_chars = {})
    => frames[p].tasks[i].result
         = Ok(source_slice(frames[p], frames[p].regions[i]))

\* every occurrence of a token in the text is preceded by a backslash
HostEscaped(text, tokens) ==
  \A tok \in tokens : \A k \in 1..Len(text) :
    StartsWith(text, tok, k) => (k > 1 /\ text[k - 1] = BS)

\* C10: for every escape set and every text in which each occurrence of a
\* token is preceded by a backslash, escaping the unescaped text with the
\* sorted list gives the text back; the sorted list is the same whatever
\* the order in which the set was iterated.
EscapeRoundTrip ==
  /\ esc.pc \in {"sorted", "unescaped", "escaped"} =>
       esc.list = sort_escape_chars(esc.set)
  /\ (esc.pc = "escaped" /\ HostEscaped(esc.text, esc.set)) =>
       esc.escaped = esc.text

\* one token of the set is a proper prefix of another
HasPrefixPair(tokens) ==
  \E a \in tokens : \E b \in tokens :
    Len(a) < Len(b) /\ SubSeq(b, 1, Len(a)) = a

\* C11: for an escape set in which one token is a prefix of another and a
\* text without backslash, unescaping the escaped text gives the text back;
\* with the set {"<", "<<"} the text "<<" is escaped as one unit, a
\* backslash followed by "<<".
PrefixTokensRoundTrip ==
  (/\ esc.pc \in {"escaped_first", "unescaped_back"}
   /\ HasPrefixPair(esc.set)
   /\ ~Contains(esc.text, BS))
  => /\ (esc.set = {<<LT>>, <<LT, LT>>} /\ esc.text = <<LT, LT>>)
          => esc.escaped = <<BS, LT, LT>>
     /\ esc.pc = "unescaped_back" => esc.unescaped = esc.text

\* C12: for every indent n >= 1 and every text whose first line does not
\* begin with a space, strip_leading_indent(offset_lines(t, n), n) is t,
\* whatever the number of spaces the other lines begin with.
ReindentDedentIdentity ==
  (/\ util.pc = "stripped"
   /\ util.n >= 1
   /\ util.text = <<>> \/ util.text[1] # SP)
  => util.stripped = util.text

\* a text of several lines, a later one beginning with a space, has been
\* re-indented and dedented
ReindentDedentReached ==
  /\ util.pc = "stripped"
  /\ util.text # <<>>
  /\ util.text[1] # SP
  /\ util.offset # util.text
  /\ \E k \in 1..(Len(util.text) - 1) : util.text[k] = NL /\ util.text[k + 1] = SP

\* C12 as stated: the same for every text each line of which, the first
\* included, begins with fewer than n spaces.
ReindentDedentFewerSpaces ==
  (/\ util.pc = "stripped"
   /\ util.n >= 1
   /\ \A k \in 1..Len(split_inclusive(util.text)) :
        leading_spaces(split_inclusive(util.text)[k]) < util.n)
  => util.stripped = util.text

\* the edits of a batch that start at byte pos
StartingAt(edits, pos) == {k \in DOMAIN edits : edits[k].start_byte = pos}

\* the buffer read once from left to right: at the start of a range its
\* replacement is written and the range skipped, every other byte is copied
RECURSIVE Rebuilt(_, _, _)
Rebuilt(buffer, edits, pos) ==
  IF pos > Len(buffer) THEN <<>>
  ELSE IF StartingAt(edits, pos) # {}
       THEN LET e == edits[CHOOSE k \in StartingAt(edits, pos) : TRUE]
            IN  IF e.end_byte > pos
                THEN e.replacement \o Rebuilt(buffer, edits, e.end_byte)
                ELSE e.replacement
                       \o (IF pos < Len(buffer) THEN <<buffer[pos + 1]>> ELSE <<>>)
                       \o Rebuilt(buffer, edits, pos + 1)
       ELSE (IF pos < Len(buffer) THEN <<buffer[pos + 1]>> ELSE <<>>)
              \o Rebuilt(buffer, edits, pos + 1)

DistinctStarts(edits) ==
  \A j, k \in DOMAIN edits : j # k => edits[j].start_byte # edits[k].start_byte

Reordered(edits) ==
  {[k \in DOMAIN edits |-> edits[p[k]]] : p \in Perms(DOMAIN edits)}

\* C13: for edits inside the buffer, no two overlapping and no two with the
\* same start_byte, apply_edits returns the buffer with each range replaced
\* by its replacement and every other byte kept in order, whatever the order
\* in which the edits are supplied.
ApplyEditsReplacesRanges ==
  (util.pc = "applied" /\ NonOverlapping(util.edits) /\ DistinctStarts(util.edits))
  => /\ util.result = Rebuilt(util.source, util.edits, 0)
     /\ \A other \in Reordered(util.edits) :
          apply_edits(util.source, other) = util.result

\* two edits supplied in ascending order, one of them an insertion, applied
ApplyEditsReached ==
  /\ util.pc = "applied"
  /\ Len(util.edits) = 2
  /\ util.edits[1].start_byte < util.edits[2].start_byte
  /\ util.edits[1].end_byte > util.edits[1].start_byte
  /\ util.edits[2].end_byte = util.edits[2].start_byte
  /\ util.edits[1].replacement # util.edits[2].replacement
  /\ util.result # util.source

\* C13 as stated: the same for every batch of pairwise non-overlapping
\* edits inside the buffer.
ApplyEditsOrderFree ==
  (util.pc = "applied" /\ NonOverlapping(util.edits))
  => \A other \in Reordered(util.edits) :
       apply_edits(util.source, other) = util.result

\* C14: in file mode, when api::format::format has returned, with Ok or
\* with Err, the temporary file it created no longer exists.
TempFileGoneOnReturn ==
  (proc.pc = "returned" /\ ~use_stdin(proc.formatter)) => proc.file = None

\* C15: a process that exits with a non-zero status fails the call, and so
\* does one that exits with status zero and bytes on standard error when
\* fail_on_stderr is true; with status zero and fail_on_stderr unset or
\* false, bytes on standard error are no error and the formatter's output
\* is returned, unless reading the file back fails.
ExitAndStderrRules ==
  (proc.pc \in {"read", "remove", "returned"} /\ proc.exited)
  => /\ proc.status # 0 => proc.ret = Err /\ proc.pc = "returned"
     /\ (/\ proc.status = 0
         /\ proc.stderr # <<>>
         /\ proc.formatter.fail_on_stderr = Some(TRUE))
        => proc.ret = Err /\ proc.pc = "returned"
     /\ (/\ proc.status = 0
         /\ proc.formatter.fail_on_stderr \in {None, Some(FALSE)})
        => /\ proc.pc = "remove" => proc.result = proc.output[1]
           /\ proc.pc = "returned"
                => \/ proc.ret = Ok(proc.output[1])
                   \/ (proc.temp_file # None /\ proc.ret = Err)

\* a call in file mode has returned what the process wrote, the process
\* having written to standard error with fail_on_stderr unset
StderrIgnoredReached ==
  /\ proc.pc = "returned"
  /\ proc.exited
  /\ proc.status = 0
  /\ proc.stderr # <<>>
  /\ proc.formatter.fail_on_stderr = None
  /\ proc.formatter.stdin = Some(FALSE)
  /\ proc.ret = Ok(proc.output[1])
  /\ proc.output[1] # proc.source

\* the base and the overlays merged so far, in the order of application
Contributions(m) == <<m.base>> \o SubSeq(m.overlays, 1, m.applied)

\* the contributions that set field f
Setting(cs, f) == {k \in DOMAIN cs : cs[k][f] # None}

Last(S) == CHOOSE k \in S : \A j \in S : j <= k

RECURSIVE ConcatSet(_, _, _)
ConcatSet(cs, f, k) ==
  IF k > Len(cs) THEN <<>>
  ELSE (IF cs[k][f] # None THEN cs[k][f][1] ELSE <<>>) \o ConcatSet(cs, f, k + 1)

ListIsConcatenation(cs, config, f) ==
  IF Setting(cs, f) = {} THEN config[f] = None
  ELSE config[f] = Some(ConcatSet(cs, f, 1))

DirIsLastSet(cs, config, f) ==
  IF Setting(cs, f) = {} THEN config[f] = None
  ELSE config[f] = cs[Last(Setting(cs, f))][f]

HavingKey(cs, f, key) == {k \in Setting(cs, f) : key \in DOMAIN cs[k][f][1]}

MapIsLastSet(cs, config, f) ==
  IF Setting(cs, f) = {} THEN config[f] = None
  ELSE /\ config[f] # None
       /\ DOMAIN config[f][1] = UNION {DOMAIN cs[k][f][1] : k \in Setting(cs, f)}
       /\ \A key \in DOMAIN config[f][1] :
            config[f][1][key] = cs[Last(HavingKey(cs, f, key))][f][1][key]

NoFieldSet(config) == \A f \in DOMAIN config : config[f] = None

\* C17: after the base and any number of overlays have been merged from
\* left to right, each list field is the concatenation of the contributions
\* in that order, each directory field and each key of each map has the
\* value of the last contribution that sets it, and the merge of an overlay
\* with no field set has left the configuration as it was.
MergeLeftToRight ==
  /\ \A f \in {"query_paths", "grammar_paths"} :
       ListIsConcatenation(Contributions(merged), merged.config, f)
  /\ \A f \in {"grammar_download_dir", "grammar_build_dir"} :
       DirIsLastSet(Contributions(merged), merged.config, f)
  /\ \A f \in {"grammars", "languages", "formatters", "wasm_formatters"} :
       MapIsLastSet(Contributions(merged), merged.config, f)
  /\ (merged.applied >= 1 /\ NoFieldSet(merged.overlays[merged.applied]))
       => merged.config = merged.before

\* two overlays merged over a base, all three setting the same key of
\* formatters and the same list, the second overlay having the last word
MergeLeftToRightReached ==
  /\ merged.pc = "loaded"
  /\ merged.applied = 2
  /\ \A k \in 1..3 :
       /\ Contributions(merged)[k].formatters # None
       /\ "a" \in DOMAIN Contributions(merged)[k].formatters[1]
       /\ Contributions(merged)[k].query_paths # None
  /\ merged.config.formatters[1]["a"] = 2
  /\ Len(merged.config.query_paths[1]) >= 3

\* C16: format_recursive terminates for every input and every registry
\* configuration whose formatters terminate, cyclic injections included:
\* every chain of nested calls reaches a call that returns.
FormatRecursiveTerminates ==
  <>(Top \in DOMAIN frames /\ frames[Top].phase = "returned")

\* the lines a..b are a group: comments of two semicolons that each start
\* their line, with no such comment just before or just after them
IsGroup(doc_lines, a, b) ==
  /\ a <= b
  /\ \A k \in a..b : doc_lines[k].kind = "c2"
  /\ a > 1 => doc_lines[a - 1].kind # "c2"
  /\ b < Len(doc_lines) => doc_lines[b + 1].kind # "c2"

\* line k of the returned text, its newline included
OutLine(k) == split_inclusive(doc.result)[k]

\* an edit that touches line k
EditsOfLine(k) ==
  {e \in DOMAIN doc.edits :
     /\ doc.edits[e].start_byte < Offset(doc.lines, k) + Len(LineBytes(doc.lines[k]))
     /\ doc.edits[e].end_byte >= Offset(doc.lines, k)
     /\ doc.edits[e].start_byte >= Offset(doc.lines, k)}

\* C18: every comment of a group that is followed by a sibling on a later
\* row starts, in the result, at the column of that sibling, behind that
\* many spaces; a comment already at that column is not edited; each group
\* follows its own sibling.
GroupsAlignedToNextSibling ==
  doc.pc = "returned"
  => /\ Len(split_inclusive(doc.result)) = Len(doc.lines)
     /\ \A a, b \in DOMAIN doc.lines :
          (IsGroup(doc.lines, a, b) /\ b < Len(doc.lines))
          => \A k \in a..b :
               /\ OutLine(k) = Spaces(doc.lines[b + 1].indent) \o <<SEMI, SEMI, NL>>
               /\ doc.lines[k].indent = doc.lines[b + 1].indent
                    => EditsOfLine(k) = {}

\* two groups of one comment, each moved to the column of the form that
\* follows it, the two forms at different columns
GroupsAlignedReached ==
  /\ doc.pc = "returned"
  /\ Len(doc.lines) = 4
  /\ IsGroup(doc.lines, 1, 1)
  /\ IsGroup(doc.lines, 3, 3)
  /\ doc.lines[1].indent # doc.lines[2].indent
  /\ doc.lines[3].indent # doc.lines[4].indent
  /\ doc.lines[2].indent # doc.lines[4].indent
  /\ Len(doc.edits) = 2

LastGroupKeepsColumns ==
  doc.pc = "returned"
  => \A a \in DOMAIN doc.lines :
       IsGroup(doc.lines, a, Len(doc.lines))
       => \A k \in a..Len(doc.lines) : OutLine(k) = LineBytes(doc.lines[k])

\* the bytes of text from position a to position b are all '\n' or '\r'
AllNewlines(text, a, b) == \A k \in a..b : IsNewline(text[k])

\* C21: the result of trim-newlines is the input without its longest prefix
\* and its longest suffix of '\n' and '\r' bytes, the bytes between kept; an
\* input of such bytes only gives the empty buffer; trimming the result
\* again changes nothing.
TrimNewlinesBothEnds ==
  util.pc = "trimmed_twice"
  => /\ \E a \in 0..Len(util.text) : \E b \in a..Len(util.text) :
          /\ util.once = SubSeq(util.text, a + 1, b)
          /\ AllNewlines(util.text, 1, a)
          /\ AllNewlines(util.text, b + 1, Len(util.text))
          /\ a < b => ~IsNewline(util.text[a + 1]) /\ ~IsNewline(util.text[b])
     /\ AllNewlines(util.text, 1, Len(util.text)) => util.once = <<>>
     /\ util.twice = util.once

\* a text with '\r' in front of two other bytes and '\n' behind them
TrimNewlinesReached ==
  /\ util.pc = "trimmed_twice"
  /\ Len(util.text) = 4
  /\ util.text[1] = CR
  /\ util.text[4] = NL
  /\ Len(util.once) = 2

\* C22: the indent of every region is the column of the region's start in
\* the buffer the region was extracted from, the buffer after root
\* formatting; when that column is 0 it is min_leading_indent of the
\* region's text.
IndentIsColumnInBuffer ==
  \A p \in DOMAIN frames : \A i \in 1..Len(frames[p].tasks) :
    (frames[p].tasks[i].state # "pending" /\ frames[p].regions[i].escape_chars = {})
    => frames[p].tasks[i].indent =
         IF column_for_byte(frames[p].buf, frames[p].regions[i].start_byte) > 0
         THEN column_for_byte(frames[p].buf, frames[p].regions[i].start_byte)
         ELSE min_leading_indent(source_slice(frames[p], frames[p].regions[i]))

\* C23: the source of every call made for a region is strictly shorter
\* than the working buffer of the call that made it.
ChildShorterThanParentBuffer ==
  \A p \in DOMAIN frames :
    p # Top => Len(frames[p].source) < Len(frames[SubSeq(p, 1, Len(p) - 1)].buf)

InFlight(call) == call.temp_file # None /\ call.pc # "returned"

\* C24: two file-mode invocations of parallel regions that overlap in time
\* (both have taken a path and neither has returned) hold distinct paths.
DistinctTempPaths ==
  proc.pc = "parallel" =>
    \A i, j \in 1..MaxPar :
      (i # j /\ InFlight(proc.calls[i]) /\ InFlight(proc.calls[j]))
      => proc.calls[i].temp_file # proc.calls[j].temp_file

\* C25: on a pool of any size from 1 to MaxWorkers the top-level call, whose
\* regions start parallel maps of their own, is eventually complete.
NestedMapsComplete == <>(util.pc = "pool" /\ util.tasks[<<>>] = "done")

\* a pool of one worker has completed a call whose regions had regions
NestedMapsReached ==
  /\ util.pc = "pool"
  /\ Len(util.workers) = 1
  /\ util.tasks[<<>>] = "done"
  /\ util.tasks[<<1, 1>>] = "done"
  /\ util.tasks[<<2, 2>>] = "done"

\* C26: a region fails on UTF-8 decoding only when it has escape characters:
\* a region without escape characters fails only when its child call failed,
\* and a region with escape characters whose child call returned bytes that
\* are not valid UTF-8 fails.
DecodingOnlyForEscapes ==
  \A p \in DOMAIN frames : \A i \in 1..Len(frames[p].tasks) :
    frames[p].tasks[i].state = "done" =>
      /\ (frames[p].regions[i].escape_chars = {} /\ ~frames[p].tasks[i].result.ok)
           => (Append(p, i) \in DOMAIN frames /\ ~frames[Append(p, i)].ret.ok)
      /\ (/\ frames[p].regions[i].escape_chars # {}
          /\ Append(p, i) \in DOMAIN frames
          /\ frames[Append(p, i)].ret.ok
          /\ ~IsUtf8(frames[Append(p, i)].ret.out))
           => ~frames[p].tasks[i].result.ok

\* the driver waits in write_all for room in the pipe to the child
WriteBlocked ==
  /\ proc.pc = "write_all"
  /\ proc.written < Len(proc.source)
  /\ Len(proc.stdin_pipe) = MaxPipe

\* the formatter waits for room in the pipe to the driver
ChildBlocked ==
  /\ proc.child.pc = "writing"
  /\ Len(proc.stdout_pipe) = MaxPipe

\* C27: in stdin mode the driver and the formatter never wait for each
\* other, whatever the size of the source relative to the capacities of
\* the pipes.
StdinModeNeverDeadlocks ==
  proc.pc \in {"write_all", "wait"} => ~(WriteBlocked /\ ChildBlocked)

\* C28: after every call of load_component, failed or not: when
\* metadata.toml records a url and a hash and component.wasm exists,
\* component.wasm is the complete download of that url and the hash is its
\* hash; and a call that succeeds returns the download of the requested url
\* and its hash.
CacheMatchesMetadata ==
  util.pc = "returned" =>
    /\ (util.metadata # None /\ util.component # None)
         => /\ util.component[1] = Served(util.metadata[1].url)
            /\ util.metadata[1].hash = Digest(util.component[1], 0)
    /\ (util.pc = "returned" /\ util.ret.ok)
         => util.ret.out = <<Served(util.url), Digest(Served(util.url), 0)>>

\* the bytes that are not white space, in order
NonSpace(bytes) == SelectSeq(bytes, LAMBDA b : b \notin {SP, NL, CR})

\* C29: every edit of align_comments replaces a range of white space only,
\* and the bytes of the result that are not white space are those of the
\* source, in order.
OnlyLeadingWhitespaceChanges ==
  /\ doc.pc = "aligned" =>
       \A e \in 1..Len(doc.edits) :
         NonSpace(SubSeq(doc.source, doc.edits[e].start_byte + 1,
                         doc.edits[e].end_byte)) = <<>>
  /\ doc.pc = "returned" => NonSpace(doc.result) = NonSpace(doc.source)
====
